---- MODULE Spec2Model ----
(***************************************************************************)
(* Model of the agent-permissions generator: the robots rule engine        *)
(* (lib/robots), the single-page crawl (lib/crawl), the request handler    *)
(* (api route) and the policy builder / parser of the page component.      *)
(*                                                                         *)
(* Strings the code inspects character by character (paths, robots         *)
(* patterns, page text) are sequences of one-character strings.  An        *)
(* optional value (T | null, T | undefined) is a sequence of length 0 or 1.*)
(***************************************************************************)
EXTENDS Integers, Sequences, FiniteSets, TLC

VARIABLES
    \* ---- isPathAllowed called on its own (lib/robots)
    pa_pc,          \* "call" | "done"
    pa_path,        \* argument path
    pa_rules,       \* argument rules: None or Some(RobotsRules)
    pa_allowed,     \* the value returned
    \* ---- crawlSite (lib/crawl)
    c_pc,           \* "idle" | "call" | "fetching" | "reading" | "returned" | "threw"
    c_targetUrl,    \* argument targetUrl, as new URL() sees it
    c_robots,       \* argument robots: None or Some(RobotsInfo)
    c_options,      \* argument options (each field optional)
    c_normalizedUrl,\* local normalizedUrl: None (null) or Some(url string)
    c_log,          \* local log
    c_pages,        \* local pages
    c_bodyHtml,     \* local bodyHtml (untruncated)
    c_rawText,      \* local rawText (untruncated, collapsed)
    c_response,     \* what the page fetch resolved with: None or Some(response)
    c_thrown,       \* what the catch block caught: None or Some(error)
    net,            \* every network request issued so far, in order
    \* ---- POST /api/generate and buildResponse (api route)
    h_pc,           \* "idle" | "start" | "rejected" | "gather" | "crawl" | "llm" | "responded"
    h_req,          \* the request: body decodes, API key configured, ?stream=1, payload.url
    h_response,     \* None, or the HTTP status and body kind POST returned
    r_pc,           \* robots branch of Promise.all: "idle" | "fetching" | "reading" | "done";
                    \* "raised" would be fetchRobots rejecting
    r_result,       \* what fetchRobots returned: None or Some(RobotsInfo)
    r_response,     \* what the robots fetch delivered so far: status, body, failure
    e_pc,           \* existing-policy branch: "idle" | "fetching" | "reading" | "done"
    e_result,       \* what fetchExistingPolicy returned
    h_processLog,   \* logger.entries
    h_events,       \* events written to the stream (streaming mode)
    h_closed,       \* writer.close() has been called
    \* ---- quick builder and policy parser (page component)
    po_pc,          \* "idle" | "build" | "built" | "parse" | "parsed"
    q_state,        \* quickState
    q_policy,       \* quickPolicy: None until computed, then Some(text)
    p_input,        \* parserInput, a sequence of JSON tokens
    p_parsed,       \* parsedPolicy: None until computed, then Some(ParsedPolicy)
    \* ---- parseRobots called on its own (lib/robots)
    pr_pc,          \* "idle" | "call" | "done"
    pr_lines,       \* the lines the text was written from
    pr_content,     \* argument content
    pr_rules,       \* the value returned
    \* ---- matchesRule called on its own (lib/robots)
    mr_pc,          \* "idle" | "call" | "done"
    mr_targetPath,  \* argument targetPath
    mr_rulePath,    \* argument rulePath
    mr_result       \* the value returned

pathVars == <<pa_pc, pa_path, pa_rules, pa_allowed>>

crawlVars == <<c_pc, c_targetUrl, c_robots, c_options, c_normalizedUrl, c_log,
               c_pages, c_bodyHtml, c_rawText, c_response, c_thrown>>

handlerVars == <<h_pc, h_req, h_response, r_pc, r_result, r_response, e_pc, e_result,
                 h_processLog, h_events, h_closed>>

policyVars == <<po_pc, q_state, q_policy, p_input, p_parsed>>

parseVars == <<pr_pc, pr_lines, pr_content, pr_rules>>

matchVars == <<mr_pc, mr_targetPath, mr_rulePath, mr_result>>

vars == <<pathVars, crawlVars, net, handlerVars, policyVars, parseVars, matchVars>>

None == <<>>
Some(x) == <<x>>

RECURSIVE SeqsUpTo(_, _)
\* all sequences over S of length at most n
SeqsUpTo(S, n) ==
    IF n = 0 THEN {<<>>}
    ELSE LET shorter == SeqsUpTo(S, n - 1)
         IN shorter \cup {Append(s, x) : s \in {t \in shorter : Len(t) = n - 1}, x \in S}

---------------------------------------------------------------------------
(* lib/robots: path matching *)

\* String.prototype.startsWith
startsWith(text, prefix) ==
    /\ Len(prefix) <= Len(text)
    /\ SubSeq(text, 1, Len(prefix)) = prefix

\* String.prototype.endsWith, for a one-character suffix
endsWithChar(text, ch) ==
    /\ Len(text) > 0
    /\ text[Len(text)] = ch

\* a matcher without the special case for "" and "/"
matchesRuleNoMatchAll(targetPath, rulePath) ==
    IF endsWithChar(rulePath, "$")
    THEN targetPath = SubSeq(rulePath, 1, Len(rulePath) - 1)
    ELSE startsWith(targetPath, rulePath)

\* a matcher for which a trailing "$" still means prefix
matchesRuleDollarPrefix(targetPath, rulePath) ==
    IF rulePath = <<>> \/ rulePath = <<"/">> THEN TRUE
    ELSE IF endsWithChar(rulePath, "$")
         THEN startsWith(targetPath, SubSeq(rulePath, 1, Len(rulePath) - 1))
         ELSE startsWith(targetPath, rulePath)

matchesRule(targetPath, rulePath) ==
    IF rulePath = <<>> \/ rulePath = <<"/">> THEN TRUE
    ELSE IF endsWithChar(rulePath, "$")
         THEN LET exact == SubSeq(rulePath, 1, Len(rulePath) - 1)
              IN targetPath = exact
         ELSE startsWith(targetPath, rulePath)

RECURSIVE firstMatch(_, _, _)
\* index of the first entry of list, from position i on, that matches the
\* path; 0 when the loop runs to its end
firstMatch(normalizedPath, list, i) ==
    IF i > Len(list) THEN 0
    ELSE IF matchesRule(normalizedPath, list[i]) THEN i
         ELSE firstMatch(normalizedPath, list, i + 1)

\* the behaviour a disallow-first evaluation would have
isPathAllowedDisallowFirst(path, rules) ==
    IF rules = None THEN TRUE
    ELSE LET normalizedPath == IF path = <<>> THEN <<"/">> ELSE path
         IN IF firstMatch(normalizedPath, rules[1].disallow, 1) # 0 THEN FALSE
            ELSE TRUE

\* the behaviour of a matcher that refuses whatever no allow entry matches
isPathAllowedDefaultDeny(path, rules) ==
    IF rules = None THEN TRUE
    ELSE LET normalizedPath == IF path = <<>> THEN <<"/">> ELSE path
         IN firstMatch(normalizedPath, rules[1].allow, 1) # 0

\* the behaviour of an evaluation that consults only the first entry of
\* each list
isPathAllowedFirstEntries(path, rules) ==
    IF rules = None THEN TRUE
    ELSE LET normalizedPath == IF path = <<>> THEN <<"/">> ELSE path
         IN IF rules[1].allow # <<>> /\ matchesRule(normalizedPath, rules[1].allow[1])
            THEN TRUE
            ELSE IF rules[1].disallow # <<>>
                    /\ matchesRule(normalizedPath, rules[1].disallow[1])
                 THEN FALSE
                 ELSE TRUE

isPathAllowed(path, rules) ==
    IF rules = None THEN TRUE
    ELSE LET normalizedPath == IF path = <<>> THEN <<"/">> ELSE path
         IN IF firstMatch(normalizedPath, rules[1].allow, 1) # 0 THEN TRUE
            ELSE IF firstMatch(normalizedPath, rules[1].disallow, 1) # 0 THEN FALSE
            ELSE TRUE

---------------------------------------------------------------------------
(* Inputs of the path matcher *)

\* longest path drawn
MaxPathLen == 2
\* most entries in an allow or a disallow list
MaxRules == 2

PathChars == {"/", "a"}
Paths == SeqsUpTo(PathChars, MaxPathLen)

\* patterns: match-all (empty and "/"), prefix, exact ("$"), deeper prefix
Patterns == {<<>>, <<"/">>, <<"/", "a">>, <<"/", "a", "$">>, <<"/", "a", "/">>}

RuleLists == SeqsUpTo(Patterns, MaxRules)

\* RobotsRules: crawlDelay is optional
RobotsRules(d, a, delay) == [disallow |-> d, allow |-> a, crawlDelay |-> delay]

RuleSets == {RobotsRules(d, a, None) : d \in RuleLists, a \in RuleLists}

\* page component, lines 115-125
DEFAULT_QUICK_STATE ==
    [siteName |-> <<>>, allowReadContent |-> TRUE, allowReadMetadata |-> TRUE,
     allowNavigation |-> TRUE, allowForms |-> TRUE, requireHumanForForms |-> FALSE,
     blockLogin |-> FALSE, rateLimit |-> "open", allowDownloads |-> TRUE]

\* neither the quick builder nor the parser is being exercised
PolicyIdle ==
    /\ po_pc = "idle"
    /\ q_state = DEFAULT_QUICK_STATE
    /\ q_policy = None
    /\ p_input = <<>>
    /\ p_parsed = None

\* parseRobots is not being called on its own
ParseIdle ==
    /\ pr_pc = "idle"
    /\ pr_lines = <<>>
    /\ pr_content = <<>>
    /\ pr_rules = [disallow |-> <<>>, allow |-> <<>>, crawlDelay |-> <<>>]

\* matchesRule is not being called on its own
MatchIdle ==
    /\ mr_pc = "idle"
    /\ mr_targetPath = <<>>
    /\ mr_rulePath = <<>>
    /\ mr_result = FALSE

\* isPathAllowed is not being called on its own
PathIdle ==
    /\ pa_pc = "idle"
    /\ pa_path = <<>>
    /\ pa_rules = None
    /\ pa_allowed = FALSE

\* crawlSite is not running
CrawlIdle ==
    /\ c_pc = "idle"
    /\ c_targetUrl = [valid |-> FALSE]
    /\ c_robots = None
    /\ c_options = [respectRobots |-> None, maxHtmlChars |-> None, maxTextChars |-> None]
    /\ c_normalizedUrl = None
    /\ c_log = <<>>
    /\ c_pages = <<>>
    /\ c_bodyHtml = <<>>
    /\ c_rawText = <<>>
    /\ c_response = None
    /\ c_thrown = None

\* no request is being handled
HandlerIdle ==
    /\ h_pc = "idle"
    /\ h_req = [jsonOk |-> FALSE, hasKey |-> FALSE, wantsStream |-> FALSE, url |-> None,
              instructions |-> "string"]
    /\ h_response = None
    /\ r_pc = "idle"
    /\ r_result = None
    /\ r_response = <<>>
    /\ e_pc = "idle"
    /\ e_result = None
    /\ h_processLog = <<>>
    /\ h_events = <<>>
    /\ h_closed = FALSE

PathInit ==
    /\ pa_pc = "call"
    /\ pa_path \in Paths
    /\ pa_rules \in {None} \cup {Some(r) : r \in RuleSets}
    /\ pa_allowed = FALSE
    /\ CrawlIdle
    /\ HandlerIdle
    /\ PolicyIdle
    /\ ParseIdle
    /\ MatchIdle
    /\ net = <<>>

\* one call of isPathAllowed
CheckPath ==
    /\ pa_pc = "call"
    /\ pa_allowed' = isPathAllowed(pa_path, pa_rules)
    /\ pa_pc' = "done"
    /\ UNCHANGED <<pa_path, pa_rules, crawlVars, net, handlerVars, policyVars, parseVars, matchVars>>

PathNext == CheckPath

SpecPath == PathInit /\ [][PathNext]_vars

\* what the matcher compares: the empty path stands for "/"
NormalizedPath == IF pa_path = <<>> THEN <<"/">> ELSE pa_path

SomeAllowMatches ==
    /\ pa_rules # None
    /\ \E i \in 1..Len(pa_rules[1].allow) : matchesRule(NormalizedPath, pa_rules[1].allow[i])

SomeDisallowMatches ==
    /\ pa_rules # None
    /\ \E i \in 1..Len(pa_rules[1].disallow) : matchesRule(NormalizedPath, pa_rules[1].disallow[i])

\* C1: allow-priority: with a present rule set, a path that some allow entry
\* matches is allowed, whatever the disallow list holds.
C1_AllowPriority ==
    (pa_pc = "done" /\ pa_rules # None /\ SomeAllowMatches) => pa_allowed = TRUE

\* a call where an allow entry and a longer, matching disallow entry compete
C1_Witness ==
    /\ pa_pc = "done"
    /\ SomeAllowMatches
    /\ SomeDisallowMatches
    /\ pa_rules[1].allow = << <<"/", "a">> >>
    /\ pa_rules[1].disallow = << <<"/", "a", "$">>, <<"/">> >>
    /\ pa_path = <<"/", "a">>
    /\ pa_allowed

\* C2: with a present rule set and no matching allow entry, the path is
\* refused when some disallow entry matches and allowed when none does.
C2_DisallowThenDefault ==
    (pa_pc = "done" /\ pa_rules # None /\ ~SomeAllowMatches)
        => (pa_allowed = ~SomeDisallowMatches)

\* both outcomes of C2 are reached
C2_Witness ==
    /\ pa_pc = "done"
    /\ pa_rules # None
    /\ ~SomeAllowMatches
    /\ SomeDisallowMatches
    /\ Len(pa_rules[1].allow) > 0
    /\ ~pa_allowed

---------------------------------------------------------------------------
(* lib/crawl: crawlSite *)

DEFAULT_OPTIONS == [respectRobots |-> TRUE, maxHtmlChars |-> 20000, maxTextChars |-> 12000]

\* { ...DEFAULT_OPTIONS, ...options }: a field the caller gave overrides
mergeOptions(options) ==
    [respectRobots |-> IF options.respectRobots = None
                       THEN DEFAULT_OPTIONS.respectRobots ELSE options.respectRobots[1],
     maxHtmlChars  |-> IF options.maxHtmlChars = None
                       THEN DEFAULT_OPTIONS.maxHtmlChars ELSE options.maxHtmlChars[1],
     maxTextChars  |-> IF options.maxTextChars = None
                       THEN DEFAULT_OPTIONS.maxTextChars ELSE options.maxTextChars[1]]

\* the serialised URL; normalizeUrl has cleared the fragment
urlToString(url) == [protocol |-> url.protocol, pathname |-> url.pathname, hash |-> url.hash]

\* a normalizeUrl that keeps the fragment
normalizeUrlKeepHash(url) ==
    IF url.protocol # "http:" /\ url.protocol # "https:" THEN None
    ELSE Some(urlToString(url))

normalizeUrl(url) ==
    IF url.protocol # "http:" /\ url.protocol # "https:" THEN None
    ELSE Some(urlToString([url EXCEPT !.hash = ""]))

ELLIPSIS == <<".", ".", ".">>

\* a truncate that cuts without appending the marker
truncateNoMarker(text, maxLength) ==
    IF Len(text) <= maxLength THEN text
    ELSE SubSeq(text, 1, maxLength)

truncate(text, maxLength) ==
    IF Len(text) <= maxLength THEN text
    ELSE SubSeq(text, 1, maxLength) \o ELLIPSIS

SKIPPED_REASON == "Skipped (disallowed by robots.txt)"
FETCHED_REASON == "Fetched landing page (single-page snapshot; links not followed)"

CrawlLogEntry(url, status, reason) == [url |-> url, status |-> status, reason |-> reason]

\* response.ok
responseOk(status) == status >= 200 /\ status <= 299

\* content-type header values and whether each includes "text/html"
HtmlContentTypes == {"text/html; charset=utf-8"}
OtherContentTypes == {"application/json", "TEXT/HTML"}
\* a test that takes every content type for HTML
includesTextHtmlAny(contentType) == TRUE
includesTextHtml(contentType) == contentType \in HtmlContentTypes

\* error instanceof Error ? error.message : "Unknown error"
errorReason(error) == IF error.isError THEN error.message ELSE "Unknown error"

\* a gate with the sense of isPathAllowed inverted
robotsGateInverted(merged, robots, pathname) ==
    merged.respectRobots /\ robots # None /\ isPathAllowed(pathname, Some(robots[1].rules))

\* a gate that refuses when no rule set is at hand
robotsGateAbsentBlocks(merged, robots, pathname) ==
    /\ merged.respectRobots
    /\ IF robots = None THEN TRUE ELSE ~isPathAllowed(pathname, Some(robots[1].rules))

\* the condition of the robots gate (line 55)
robotsGate(merged, robots, pathname) ==
    merged.respectRobots /\ robots # None /\ ~isPathAllowed(pathname, Some(robots[1].rules))

\* new URL(targetUrl) throws: crawlSite rejects before it has done anything
CrawlInvalidUrl ==
    /\ c_pc = "call"
    /\ ~c_targetUrl.valid
    /\ c_pc' = "threw"
    /\ UNCHANGED <<c_targetUrl, c_response, c_thrown, c_robots, c_options, c_normalizedUrl, c_log, c_pages,
                   c_bodyHtml, c_rawText, net>>

\* lines 45-53: the scheme is not http/https
CrawlRejectScheme ==
    /\ c_pc = "call"
    /\ c_targetUrl.valid
    /\ normalizeUrl(c_targetUrl) = None
    /\ c_normalizedUrl' = None
    /\ c_log' = <<>>
    /\ c_pages' = <<>>
    /\ c_pc' = "returned"
    /\ UNCHANGED <<c_targetUrl, c_response, c_thrown, c_robots, c_options, c_bodyHtml, c_rawText, net>>

\* lines 55-61: the robots gate refuses the path
CrawlGateSkip ==
    /\ c_pc = "call"
    /\ c_targetUrl.valid
    /\ normalizeUrl(c_targetUrl) # None
    /\ robotsGate(mergeOptions(c_options), c_robots, c_targetUrl.pathname)
    /\ c_normalizedUrl' = normalizeUrl(c_targetUrl)
    /\ c_log' = <<CrawlLogEntry(normalizeUrl(c_targetUrl)[1], None, Some(SKIPPED_REASON))>>
    /\ c_pages' = <<>>
    /\ c_pc' = "returned"
    /\ UNCHANGED <<c_targetUrl, c_response, c_thrown, c_robots, c_options, c_bodyHtml, c_rawText, net>>

\* lines 63-70: the gate lets the path through and the page fetch is issued
CrawlIssueFetch ==
    /\ c_pc = "call"
    /\ c_targetUrl.valid
    /\ normalizeUrl(c_targetUrl) # None
    /\ ~robotsGate(mergeOptions(c_options), c_robots, c_targetUrl.pathname)
    /\ c_normalizedUrl' = normalizeUrl(c_targetUrl)
    /\ c_log' = <<>>
    /\ c_pages' = <<>>
    /\ net' = Append(net, [kind |-> "page", url |-> normalizeUrl(c_targetUrl)[1]])
    /\ c_pc' = "fetching"
    /\ UNCHANGED <<c_targetUrl, c_response, c_thrown, c_robots, c_options, c_bodyHtml, c_rawText>>

Statuses == {200, 404, 500}

\* lines 72-87: the fetch resolves with a response
CrawlFetchResolves ==
    /\ c_pc = "fetching"
    /\ \E status \in Statuses, contentType \in {None} \cup {Some(t) : t \in HtmlContentTypes \cup OtherContentTypes} :
         /\ c_response' = Some([status |-> status, contentType |-> contentType])
         /\ c_log' = Append(c_log, CrawlLogEntry(c_normalizedUrl[1], Some(status), Some(FETCHED_REASON)))
         /\ IF ~responseOk(status) THEN c_pc' = "returned"
            ELSE IF ~includesTextHtml(IF contentType = None THEN "" ELSE contentType[1])
                 THEN c_pc' = "returned"
                 ELSE c_pc' = "reading"
    /\ UNCHANGED <<c_targetUrl, c_thrown, c_robots, c_options, c_normalizedUrl, c_pages,
                   c_bodyHtml, c_rawText, net>>

Errors == {[isError |-> TRUE, message |-> "fetch failed"], [isError |-> FALSE]}

\* a crawlSite without the catch: the failure propagates to the caller
CrawlCatchRaises ==
    /\ c_pc \in {"fetching", "reading"}
    /\ \E error \in Errors : c_thrown' = Some(error)
    /\ c_pc' = "threw"
    /\ UNCHANGED <<c_targetUrl, c_response, c_robots, c_options, c_normalizedUrl, c_pages,
                   c_bodyHtml, c_rawText, c_log, net>>

\* lines 125-130: the fetch, the body read or the HTML parse throws
CrawlCatch ==
    /\ c_pc \in {"fetching", "reading"}
    /\ \E error \in Errors :
         /\ c_thrown' = Some(error)
         /\ c_log' = Append(c_log, CrawlLogEntry(c_normalizedUrl[1], None, Some(errorReason(error))))
    /\ c_pc' = "returned"
    /\ UNCHANGED <<c_targetUrl, c_response, c_robots, c_options, c_normalizedUrl, c_pages,
                   c_bodyHtml, c_rawText, net>>

\* longest body markup / body text drawn
MaxBodyLen == 4
\* largest maxHtmlChars / maxTextChars a caller passes
MaxCeil == 1

\* body.html()?.trim() ?? "" of the parsed page: markup characters
BodyHtmls == SeqsUpTo({"<"}, MaxBodyLen)
\* body.text().replace(/\s+/g, " ").trim() of the parsed page
RawTexts == SeqsUpTo({"a", "."}, MaxBodyLen)

PageSummary(url, textContent, htmlContent, isTextTruncated, isHtmlTruncated) ==
    [url |-> url, textContent |-> textContent, htmlContent |-> htmlContent,
     isTextTruncated |-> isTextTruncated, isHtmlTruncated |-> isHtmlTruncated]

\* lines 87-124: the body arrives, is parsed and summarised
CrawlExtract ==
    /\ c_pc = "reading"
    /\ \E bodyHtml \in BodyHtmls, rawText \in RawTexts :
         LET merged == mergeOptions(c_options)
             htmlContent == truncate(bodyHtml, merged.maxHtmlChars)
             isHtmlTruncated == Len(bodyHtml) > Len(htmlContent)
             textContent == truncate(rawText, merged.maxTextChars)
             isTextTruncated == Len(rawText) > Len(textContent)
         IN /\ c_bodyHtml' = bodyHtml
            /\ c_rawText' = rawText
            /\ c_pages' = Append(c_pages,
                   PageSummary(c_normalizedUrl[1], textContent, htmlContent,
                               isTextTruncated, isHtmlTruncated))
    /\ c_pc' = "returned"
    /\ UNCHANGED <<c_targetUrl, c_response, c_thrown, c_robots, c_options, c_normalizedUrl, c_log, net>>

(* Inputs of crawlSite *)

CrawlPaths == {<<"/">>, <<"/", "a">>}
Urls == {[valid |-> FALSE]} \cup
        {[valid |-> TRUE, protocol |-> pr, pathname |-> pa, hash |-> h] :
            pr \in {"http:", "https:", "ftp:"}, pa \in CrawlPaths, h \in {"", "#top"}}

\* rule sets the gate is tried against: empty, prefix, match-all, allow over disallow
GateRuleSets ==
    {RobotsRules(<<>>, <<>>, None),
     RobotsRules(<< <<"/", "a">> >>, <<>>, None),
     RobotsRules(<< <<"/">> >>, <<>>, None),
     RobotsRules(<< <<"/">> >>, << <<"/", "a">> >>, None)}

RobotsInfo(raw, rules) == [raw |-> raw, rules |-> rules]

OptionsGiven ==
    [respectRobots : {None, Some(TRUE), Some(FALSE)},
     maxHtmlChars : {None} \cup {Some(n) : n \in 0..MaxCeil},
     maxTextChars : {None} \cup {Some(n) : n \in 0..MaxCeil}]

CrawlInit ==
    /\ PathIdle
    /\ HandlerIdle
    /\ PolicyIdle
    /\ ParseIdle
    /\ MatchIdle
    /\ c_pc = "call"
    /\ c_targetUrl \in Urls
    /\ c_robots \in {None} \cup {Some(RobotsInfo(<<>>, r)) : r \in GateRuleSets}
    /\ c_options \in OptionsGiven
    /\ c_normalizedUrl = None
    /\ c_log = <<>>
    /\ c_pages = <<>>
    /\ c_bodyHtml = <<>>
    /\ c_rawText = <<>>
    /\ c_response = None
    /\ c_thrown = None
    /\ net = <<>>

\* the steps of one crawlSite invocation
CrawlNext ==
    \/ CrawlInvalidUrl /\ UNCHANGED <<pathVars, handlerVars, policyVars, parseVars, matchVars>>
    \/ CrawlRejectScheme /\ UNCHANGED <<pathVars, handlerVars, policyVars, parseVars, matchVars>>
    \/ CrawlGateSkip /\ UNCHANGED <<pathVars, handlerVars, policyVars, parseVars, matchVars>>
    \/ CrawlIssueFetch /\ UNCHANGED <<pathVars, handlerVars, policyVars, parseVars, matchVars>>
    \/ CrawlFetchResolves /\ UNCHANGED <<pathVars, handlerVars, policyVars, parseVars, matchVars>>
    \/ CrawlCatch /\ UNCHANGED <<pathVars, handlerVars, policyVars, parseVars, matchVars>>
    \/ CrawlExtract /\ UNCHANGED <<pathVars, handlerVars, policyVars, parseVars, matchVars>>

SpecCrawl == CrawlInit /\ [][CrawlNext]_vars

---------------------------------------------------------------------------
(* Claims about crawlSite *)

\* the target parsed and passed normalizeUrl: the invocation reaches the gate
ReachesGate == c_targetUrl.valid /\ normalizeUrl(c_targetUrl) # None

\* respectRobots is in force and the present rule set refuses the target's path
GateRefuses ==
    /\ ReachesGate
    /\ mergeOptions(c_options).respectRobots
    /\ c_robots # None
    /\ ~isPathAllowed(c_targetUrl.pathname, Some(c_robots[1].rules))

PageFetchIssued == \E i \in 1..Len(net) : net[i].kind = "page"

\* C3: with respectRobots enabled and a present rule set that disallows the
\* target's path, crawlSite issues no page fetch and returns no pages and a
\* log of exactly one entry, whose reason is the robots skip and which has no
\* status.
C3_RobotsGateSkips ==
    GateRefuses =>
        /\ c_pc \in {"call", "returned"}
        /\ ~PageFetchIssued
        /\ c_pc = "returned" =>
              /\ c_pages = <<>>
              /\ Len(c_log) = 1
              /\ c_log[1].reason = Some(SKIPPED_REASON)
              /\ c_log[1].status = None

\* a crawl refused by a rule set that disallows everything but allows another path
C3_Witness ==
    /\ c_pc = "returned"
    /\ GateRefuses
    /\ c_robots[1].rules.allow # <<>>
    /\ c_options.respectRobots = None
    /\ Len(c_log) = 1

\* C5: isTextTruncated is true iff the untruncated collapsed text is longer
\* than maxTextChars, and isHtmlTruncated iff the untruncated body markup is
\* longer than maxHtmlChars (the marker does not count).
C5_TruncationFlags ==
    (c_pc = "returned" /\ Len(c_pages) = 1) =>
        /\ c_pages[1].isTextTruncated = (Len(c_rawText) > mergeOptions(c_options).maxTextChars)
        /\ c_pages[1].isHtmlTruncated = (Len(c_bodyHtml) > mergeOptions(c_options).maxHtmlChars)

---------------------------------------------------------------------------
(* lib/robots: parseRobots, on text as a sequence of characters *)

UpperChars == <<"A", "B", "C", "D", "E", "F", "G", "H", "I", "J", "K", "L", "M",
                "N", "O", "P", "Q", "R", "S", "T", "U", "V", "W", "X", "Y", "Z">>
LowerChars == <<"a", "b", "c", "d", "e", "f", "g", "h", "i", "j", "k", "l", "m",
                "n", "o", "p", "q", "r", "s", "t", "u", "v", "w", "x", "y", "z">>

lowerChar(ch) ==
    IF \E i \in 1..Len(UpperChars) : UpperChars[i] = ch
    THEN LowerChars[CHOOSE i \in 1..Len(UpperChars) : UpperChars[i] = ch]
    ELSE ch

\* String.prototype.toLowerCase
toLowerCase(text) == [i \in 1..Len(text) |-> lowerChar(text[i])]

\* the characters String.prototype.trim removes, among those the texts use
isSpace(ch) == ch \in {" ", "\t", "\r", "\n"}

RECURSIVE trimStart(_)
trimStart(text) ==
    IF text # <<>> /\ isSpace(text[1]) THEN trimStart(Tail(text)) ELSE text

RECURSIVE trimEnd(_)
trimEnd(text) ==
    IF text # <<>> /\ isSpace(text[Len(text)])
    THEN trimEnd(SubSeq(text, 1, Len(text) - 1)) ELSE text

\* String.prototype.trim
trim(text) == trimEnd(trimStart(text))

\* String.prototype.includes
includes(text, part) ==
    \E i \in 0..(Len(text) - Len(part)) : SubSeq(text, i + 1, i + Len(part)) = part

\* String.prototype.split on a one-character separator: the pieces of
\* cur \o text between consecutive separators of text
splitOn(text, sep, cur) ==
    LET seps == {i \in 1..Len(text) : text[i] = sep}
        \* position of the k-th separator; 0 before the first, past the end after the last
        at(k) == IF k = 0 THEN 0
                 ELSE IF k > Cardinality(seps) THEN Len(text) + 1
                 ELSE CHOOSE i \in seps : Cardinality({j \in seps : j <= i}) = k
    IN [k \in 1..(Cardinality(seps) + 1) |->
            (IF k = 1 THEN cur ELSE <<>>) \o SubSeq(text, at(k - 1) + 1, at(k) - 1)]

\* content.split(/\r?\n/): a "\r" right before the "\n" belongs to the separator
splitLines(content) ==
    LET pieces == splitOn(content, "\n", <<>>)
    IN [i \in 1..Len(pieces) |->
            IF i < Len(pieces) /\ endsWithChar(pieces[i], "\r")
            THEN SubSeq(pieces[i], 1, Len(pieces[i]) - 1)
            ELSE pieces[i]]

RECURSIVE joinWith(_, _)
\* Array.prototype.join with a one-character separator
joinWith(parts, sep) ==
    IF parts = <<>> THEN <<>>
    ELSE IF Len(parts) = 1 THEN parts[1]
         ELSE parts[1] \o <<sep>> \o joinWith(Tail(parts), sep)

Digits == {"0", "1", "2", "3", "4", "5", "6", "7", "8", "9"}

RECURSIVE digitPrefix(_)
\* the longest prefix of text made of decimal digits
digitPrefix(text) ==
    IF text # <<>> /\ text[1] \in Digits THEN <<text[1]>> \o digitPrefix(Tail(text)) ELSE <<>>

\* Number.parseFloat followed by Number.isFinite, for texts without an
\* exponent part: None when the result is NaN or infinite, else the number
\* as sign, whole digits and fraction digits
parseFloatFinite(value) ==
    LET s == trimStart(value)
        neg == s # <<>> /\ s[1] = "-"
        unsigned == IF s # <<>> /\ s[1] \in {"-", "+"} THEN Tail(s) ELSE s
        whole == digitPrefix(unsigned)
        afterWhole == SubSeq(unsigned, Len(whole) + 1, Len(unsigned))
        frac == IF afterWhole # <<>> /\ afterWhole[1] = "."
                THEN digitPrefix(Tail(afterWhole)) ELSE <<>>
    IN IF whole = <<>> /\ frac = <<>> THEN None
       ELSE Some([negative |-> neg, whole |-> whole, fraction |-> frac])

S_user_agent == <<"u", "s", "e", "r", "-", "a", "g", "e", "n", "t">>
S_disallow == <<"d", "i", "s", "a", "l", "l", "o", "w">>
S_allow == <<"a", "l", "l", "o", "w">>
S_crawl_delay == <<"c", "r", "a", "w", "l", "-", "d", "e", "l", "a", "y">>
\* the token a user-agent value must contain (line 60)
AGENT_TOKEN == <<"a", "g", "e", "n", "t", "-", "p", "e", "r", "m", "i", "s", "s", "i", "o", "n", "s">>

\* a matcher for which every user-agent line opens an applicable block
blockAppliesAny(value) == TRUE

\* line 59-60: does the block opened by this user-agent value apply
blockApplies(value) ==
    LET ua == toLowerCase(value)
    IN ua = <<"*">> \/ includes(ua, AGENT_TOKEN)

\* a loop body in which a block, once it applies, stays open through the
\* user-agent lines that follow
parseLineSticky(st, line) ==
    LET cleaned == trim(line)
        parts == splitOn(cleaned, ":", <<>>)
        rawKey == parts[1]
        rest == Tail(parts)
        key == toLowerCase(trim(rawKey))
        value == trim(joinWith(rest, ":"))
    IN IF cleaned = <<>> \/ cleaned[1] = "#" THEN st
       ELSE IF rawKey = <<>> \/ rest = <<>> THEN st
       ELSE IF key = S_user_agent THEN [st EXCEPT !.applies = @ \/ blockApplies(value)]
       ELSE IF ~st.applies THEN st
       ELSE IF key = S_disallow
            THEN IF value # <<>>
                 THEN [st EXCEPT !.rules.disallow = Append(@, value)] ELSE st
       ELSE IF key = S_allow
            THEN IF value # <<>>
                 THEN [st EXCEPT !.rules.allow = Append(@, value)] ELSE st
       ELSE IF key = S_crawl_delay
            THEN IF parseFloatFinite(value) # None
                 THEN [st EXCEPT !.rules.crawlDelay = parseFloatFinite(value)] ELSE st
       ELSE st

\* lines 47-76: the loop body, on the state (rules, applies)
parseLine(st, line) ==
    LET cleaned == trim(line)
        parts == splitOn(cleaned, ":", <<>>)
        rawKey == parts[1]
        rest == Tail(parts)
        key == toLowerCase(trim(rawKey))
        value == trim(joinWith(rest, ":"))
    IN IF cleaned = <<>> \/ cleaned[1] = "#" THEN st
       ELSE IF rawKey = <<>> \/ rest = <<>> THEN st
       ELSE IF key = S_user_agent THEN [st EXCEPT !.applies = blockApplies(value)]
       ELSE IF ~st.applies THEN st
       ELSE IF key = S_disallow
            THEN IF value # <<>>
                 THEN [st EXCEPT !.rules.disallow = Append(@, value)] ELSE st
       ELSE IF key = S_allow
            THEN IF value # <<>>
                 THEN [st EXCEPT !.rules.allow = Append(@, value)] ELSE st
       ELSE IF key = S_crawl_delay
            THEN IF parseFloatFinite(value) # None
                 THEN [st EXCEPT !.rules.crawlDelay = parseFloatFinite(value)] ELSE st
       ELSE st

RECURSIVE parseLines(_, _)
parseLines(st, lines) ==
    IF lines = <<>> THEN st
    ELSE parseLines(parseLine(st, lines[1]), Tail(lines))

parseRobots(content) ==
    parseLines([rules |-> RobotsRules(<<>>, <<>>, None), applies |-> FALSE],
               splitLines(content)).rules

---------------------------------------------------------------------------
(* api route: POST and buildResponse *)

\* User-agent: *\nDisallow: /a\n
ROBOTS_DISALLOW_A ==
    <<"U", "s", "e", "r", "-", "a", "g", "e", "n", "t", ":", " ", "*", "\n",
      "D", "i", "s", "a", "l", "l", "o", "w", ":", " ", "/", "a", "\n">>

\* user-agent: *\r\ndisallow: /\r\nallow: /a\r\ncrawl-delay: 2.5
ROBOTS_ALLOW_OVER_DISALLOW ==
    <<"u", "s", "e", "r", "-", "a", "g", "e", "n", "t", ":", " ", "*", "\r",
      "\n", "d", "i", "s", "a", "l", "l", "o", "w", ":", " ", "/", "\r",
      "\n", "a", "l", "l", "o", "w", ":", " ", "/", "a", "\r", "\n", "c",
      "r", "a", "w", "l", "-", "d", "e", "l", "a", "y", ":", " ", "2", ".",
      "5">>

\* User-agent: other-bot\nDisallow: /\n
ROBOTS_OTHER_BOT ==
    <<"U", "s", "e", "r", "-", "a", "g", "e", "n", "t", ":", " ", "o", "t",
      "h", "e", "r", "-", "b", "o", "t", "\n", "D", "i", "s", "a", "l", "l",
      "o", "w", ":", " ", "/", "\n">>

\* 
ROBOTS_EMPTY ==
    <<>>

\* bodies a robots.txt fetch may deliver
RobotsTexts == {ROBOTS_DISALLOW_A, ROBOTS_ALLOW_OVER_DISALLOW, ROBOTS_OTHER_BOT, ROBOTS_EMPTY}

ProcessLogEntry(step, detail) == [step |-> step, detail |-> detail]

\* createProcessLogger(...).log applied to each of entries in turn: the
\* entry is pushed and, in streaming mode, emitted as a "log" event
loggedProcessLog(entries) == h_processLog \o entries
loggedEvents(entries) ==
    IF h_req.wantsStream
    THEN h_events \o [i \in 1..Len(entries) |-> [event |-> "log", data |-> entries[i]]]
    ELSE h_events

\* lines 55-63: the request body does not decode
HandlerBadJson ==
    /\ h_pc = "start"
    /\ ~h_req.jsonOk
    /\ h_response' = Some([status |-> 400, error |-> "Invalid JSON payload."])
    /\ h_pc' = "rejected"
    /\ UNCHANGED <<h_req, r_response, r_pc, r_result, e_pc, e_result, h_processLog, h_events, h_closed,
                   crawlVars, net>>

\* lines 67-82: no API key is configured
HandlerNoKey ==
    /\ h_pc = "start"
    /\ h_req.jsonOk
    /\ ~h_req.hasKey
    /\ h_response' = Some([status |-> 500,
                           error |-> "OPENAI_API_KEY is not configured on the server.",
                           contentType |-> IF h_req.wantsStream THEN "text/event-stream"
                                           ELSE "application/json"])
    /\ h_pc' = "rejected"
    /\ UNCHANGED <<h_req, r_response, r_pc, r_result, e_pc, e_result, h_processLog, h_events, h_closed,
                   crawlVars, net>>

\* lines 84-106: payload.url is missing, does not parse or is not http/https
HandlerBadUrl ==
    /\ h_pc = "start"
    /\ h_req.jsonOk
    /\ h_req.hasKey
    /\ \/ /\ h_req.url = None
          /\ h_response' = Some([status |-> 400, error |-> "Missing required field 'url'."])
       \/ /\ h_req.url # None
          /\ ~h_req.url[1].valid
          /\ h_response' = Some([status |-> 400,
                error |-> "URL could not be parsed. Provide a valid absolute URL."])
       \/ /\ h_req.url # None
          /\ h_req.url[1].valid
          /\ h_req.url[1].protocol # "https:" /\ h_req.url[1].protocol # "http:"
          /\ h_response' = Some([status |-> 400,
                error |-> "Only HTTP and HTTPS URLs are supported."])
    /\ h_pc' = "rejected"
    /\ UNCHANGED <<h_req, r_response, r_pc, r_result, e_pc, e_result, h_processLog, h_events, h_closed,
                   crawlVars, net>>

\* an acceptance test that does not look at the API key
RequestAcceptedKeyless ==
    /\ h_req.jsonOk
    /\ h_req.url # None
    /\ h_req.url[1].valid
    /\ h_req.url[1].protocol \in {"https:", "http:"}

\* the request passed every check of lines 55-106
RequestAccepted ==
    /\ h_req.jsonOk
    /\ h_req.hasKey
    /\ h_req.url # None
    /\ h_req.url[1].valid
    /\ h_req.url[1].protocol \in {"https:", "http:"}

\* line 171: payload.instructions?.slice(0, 2000) throws a TypeError when
\* instructions is neither absent nor a value with a slice method
sliceThrows(instructions) == instructions = "number"

\* a run whose failure closes the stream without an event
HandlerRunRaisesSilent ==
    /\ h_pc = "start"
    /\ RequestAccepted
    /\ sliceThrows(h_req.instructions)
    /\ h_closed' = h_req.wantsStream
    /\ h_pc' = "raised"
    /\ UNCHANGED <<h_req, h_response, h_events, r_response, r_pc, r_result, e_pc, e_result,
                   h_processLog, crawlVars, net>>

\* lines 108-141 and 171: buildResponse raises before its first log entry.
\* In streaming mode the catch of lines 122-124 sends one "error" event and
\* the finally of lines 125-127 closes the stream behind the response
\* already returned (lines 130-136); otherwise POST itself raises
HandlerRunRaises ==
    /\ h_pc = "start"
    /\ RequestAccepted
    /\ sliceThrows(h_req.instructions)
    /\ IF h_req.wantsStream
       THEN /\ h_events' = Append(h_events,
                   [event |-> "error",
                    data |-> [message |-> "payload.instructions.slice is not a function"]])
            /\ h_closed' = TRUE
            /\ h_response' = Some([status |-> 200, contentType |-> "text/event-stream"])
       ELSE /\ h_events' = h_events
            /\ h_closed' = h_closed
            /\ h_response' = h_response
    /\ h_pc' = "raised"
    /\ UNCHANGED <<h_req, r_response, r_pc, r_result, e_pc, e_result, h_processLog,
                   crawlVars, net>>

\* lines 108-141 and 171-197: buildResponse is entered and runs to the await
\* of Promise.all: both branches have logged and issued their fetch
HandlerGather ==
    /\ h_pc = "start"
    /\ RequestAccepted
    /\ ~sliceThrows(h_req.instructions)
    /\ LET entries == <<ProcessLogEntry("Fetching robots.txt", "(origin)"),
                        ProcessLogEntry("Checking for existing agent-permissions.json", "")>>
       IN /\ h_processLog' = loggedProcessLog(entries)
          /\ h_events' = loggedEvents(entries)
    /\ net' = net \o <<[kind |-> "robots", url |-> "/robots.txt"],
                       [kind |-> "policy", url |-> "/.well-known/agent-permissions.json"]>>
    /\ r_pc' = "fetching"
    /\ e_pc' = "fetching"
    /\ h_pc' = "gather"
    /\ UNCHANGED <<h_req, r_response, h_response, r_result, e_result, h_closed, crawlVars>>

\* fetchRobots returns: the branch logs the outcome and settles
robotsBranchDone(result) ==
    /\ r_result' = result
    /\ r_pc' = "done"
    /\ LET entries == <<ProcessLogEntry("Robots fetched",
                IF result # None THEN "Found robots.txt" ELSE "No robots.txt found")>>
       IN /\ h_processLog' = loggedProcessLog(entries)
          /\ h_events' = loggedEvents(entries)

\* robots lines 23-29: the robots fetch resolves with a response
RobotsFetchResolves ==
    /\ r_pc = "fetching"
    /\ \E status \in Statuses :
         /\ r_response' = Append(r_response, [ev |-> "status", status |-> status])
         /\ IF ~responseOk(status) \/ status = 404
            THEN robotsBranchDone(None)
            ELSE /\ r_pc' = "reading"
                 /\ UNCHANGED <<r_result, h_processLog, h_events>>
    /\ UNCHANGED <<h_pc, h_req, h_response, e_pc, e_result, h_closed, crawlVars, net>>

\* a fetchRobots that parses a text other than the one it returns as raw
RobotsTextResolvesOtherText ==
    /\ r_pc = "reading"
    /\ \E raw \in RobotsTexts :
         /\ r_response' = Append(r_response, [ev |-> "body", raw |-> raw])
         /\ robotsBranchDone(Some(RobotsInfo(raw, parseRobots(<<>>))))
    /\ UNCHANGED <<h_pc, h_req, h_response, e_pc, e_result, h_closed, crawlVars, net>>

\* robots lines 29-33: the body arrives and is parsed
RobotsTextResolves ==
    /\ r_pc = "reading"
    /\ \E raw \in RobotsTexts :
         /\ r_response' = Append(r_response, [ev |-> "body", raw |-> raw])
         /\ robotsBranchDone(Some(RobotsInfo(raw, parseRobots(raw))))
    /\ UNCHANGED <<h_pc, h_req, h_response, e_pc, e_result, h_closed, crawlVars, net>>

\* a fetchRobots without the catch: the failure propagates to the caller
RobotsFetchFailsRaises ==
    /\ r_pc \in {"fetching", "reading"}
    /\ r_response' = Append(r_response, [ev |-> "threw"])
    /\ r_pc' = "raised"
    /\ UNCHANGED <<r_result, h_processLog, h_events>>
    /\ UNCHANGED <<h_pc, h_req, h_response, e_pc, e_result, h_closed, crawlVars, net>>

\* robots lines 34-36: the fetch or the body read throws
RobotsFetchFails ==
    /\ r_pc \in {"fetching", "reading"}
    /\ r_response' = Append(r_response, [ev |-> "threw"])
    /\ robotsBranchDone(None)
    /\ UNCHANGED <<h_pc, h_req, h_response, e_pc, e_result, h_closed, crawlVars, net>>

\* fetchExistingPolicy returns: the branch logs the outcome and settles
policyBranchDone(result) ==
    /\ e_result' = result
    /\ e_pc' = "done"
    /\ LET entries == <<ProcessLogEntry("Existing policy lookup complete",
                IF result # None THEN "Status" ELSE "None found")>>
       IN /\ h_processLog' = loggedProcessLog(entries)
          /\ h_events' = loggedEvents(entries)

\* lines 270-283: the existing-policy fetch resolves with a response
PolicyFetchResolves ==
    /\ e_pc = "fetching"
    /\ \E status \in Statuses :
         IF ~responseOk(status)
         THEN policyBranchDone(IF status = 404 THEN None
                               ELSE Some([status |-> status, kind |-> "status"]))
         ELSE /\ e_pc' = "reading"
              /\ UNCHANGED <<e_result, h_processLog, h_events>>
    /\ UNCHANGED <<h_pc, h_req, r_response, h_response, r_pc, r_result, h_closed, crawlVars, net>>

\* lines 283-296: the body arrives; it decodes as JSON or is kept raw
PolicyTextResolves ==
    /\ e_pc = "reading"
    /\ \E kind \in {"body", "raw"} : policyBranchDone(Some([status |-> 200, kind |-> kind]))
    /\ UNCHANGED <<h_pc, h_req, r_response, h_response, r_pc, r_result, h_closed, crawlVars, net>>

\* lines 297-299: the fetch or the body read throws
PolicyFetchFails ==
    /\ e_pc \in {"fetching", "reading"}
    /\ policyBranchDone(None)
    /\ UNCHANGED <<h_pc, h_req, r_response, h_response, r_pc, r_result, h_closed, crawlVars, net>>

\* crawlSite is entered with these arguments
callCrawlSite(targetUrl, robots, options) ==
    /\ c_pc' = "call"
    /\ c_targetUrl' = targetUrl
    /\ c_robots' = robots
    /\ c_options' = options
    /\ c_normalizedUrl' = None
    /\ c_log' = <<>>
    /\ c_pages' = <<>>
    /\ c_bodyHtml' = <<>>
    /\ c_rawText' = <<>>
    /\ c_response' = None
    /\ c_thrown' = None

\* a handler that starts the crawl once the policy lookup alone has settled,
\* with whatever the robots branch holds at that moment
HandlerCallCrawlEarly ==
    /\ h_pc = "gather"
    /\ e_pc = "done"
    /\ LET entries == <<ProcessLogEntry("Fetching landing page snapshot", "(url)")>>
       IN /\ h_processLog' = loggedProcessLog(entries)
          /\ h_events' = loggedEvents(entries)
    /\ callCrawlSite(h_req.url[1], r_result,
                     [respectRobots |-> Some(TRUE), maxHtmlChars |-> None, maxTextChars |-> None])
    /\ h_pc' = "crawl"
    /\ UNCHANGED <<h_req, r_response, h_response, r_pc, r_result, e_pc, e_result, h_closed, net>>

\* a handler that hands the crawl no rule set
HandlerCallCrawlNoRobots ==
    /\ h_pc = "gather"
    /\ r_pc = "done"
    /\ e_pc = "done"
    /\ LET entries == <<ProcessLogEntry("Fetching landing page snapshot", "(url)")>>
       IN /\ h_processLog' = loggedProcessLog(entries)
          /\ h_events' = loggedEvents(entries)
    /\ callCrawlSite(h_req.url[1], None,
                     [respectRobots |-> Some(TRUE), maxHtmlChars |-> None, maxTextChars |-> None])
    /\ h_pc' = "crawl"
    /\ UNCHANGED <<h_req, r_response, h_response, r_pc, r_result, e_pc, e_result, h_closed, net>>

\* lines 181-202: Promise.all has resolved with both results; crawlSite is
\* called with the robots result
HandlerCallCrawl ==
    /\ h_pc = "gather"
    /\ r_pc = "done"
    /\ e_pc = "done"
    /\ LET entries == <<ProcessLogEntry("Fetching landing page snapshot", "(url)")>>
       IN /\ h_processLog' = loggedProcessLog(entries)
          /\ h_events' = loggedEvents(entries)
    /\ callCrawlSite(h_req.url[1], r_result,
                     [respectRobots |-> Some(TRUE), maxHtmlChars |-> None, maxTextChars |-> None])
    /\ h_pc' = "crawl"
    /\ UNCHANGED <<h_req, r_response, h_response, r_pc, r_result, e_pc, e_result, h_closed, net>>

\* lines 203-225: crawlSite has returned; the standard is loaded and the
\* model request is issued
HandlerRequestModel ==
    /\ h_pc = "crawl"
    /\ c_pc = "returned"
    /\ \E standardLoaded \in BOOLEAN :
         LET entries ==
               <<ProcessLogEntry("Page snapshot complete",
                     IF Len(c_pages) # 0 THEN "Captured words" ELSE "No HTML content returned"),
                 ProcessLogEntry("Loaded agent-permissions standard",
                     IF standardLoaded THEN "Local copy loaded"
                     ELSE "Standard missing; continuing without it"),
                 ProcessLogEntry("Requesting draft policy from OpenAI", "")>>
         IN /\ h_processLog' = loggedProcessLog(entries)
            /\ h_events' = loggedEvents(entries)
    /\ net' = Append(net, [kind |-> "llm", url |-> "https://api.openai.com/v1/chat/completions"])
    /\ h_pc' = "llm"
    /\ UNCHANGED <<h_req, r_response, h_response, r_pc, r_result, e_pc, e_result, h_closed, crawlVars>>

\* what requestPolicyFromOpenAI returns in LlmResult.error (lines 377-407)
LlmErrors == {None, Some("OpenAI API error"), Some("Unable to parse JSON from model output."),
              Some("Failed to contact OpenAI API.")}

\* lines 226-250 and 120-127, 140-141: the model call returns, the response
\* body is built and sent
HandlerRespond ==
    /\ h_pc = "llm"
    /\ \E llmError \in LlmErrors :
         LET entries == <<ProcessLogEntry("Model response received",
                              IF llmError # None THEN llmError[1] ELSE "Draft policy ready")>>
             body == [robotsPresent |-> r_result # None,
                      existingPolicy |-> e_result,
                      totalPages |-> Len(c_pages),
                      crawlPages |-> c_pages,
                      llmError |-> llmError]
         IN /\ h_processLog' = loggedProcessLog(entries)
            /\ IF h_req.wantsStream
               THEN /\ h_events' = Append(loggedEvents(entries), [event |-> "result", data |-> body])
                    /\ h_closed' = TRUE
               ELSE /\ h_events' = h_events
                    /\ h_closed' = h_closed
            /\ h_response' = Some([status |-> 200, body |-> body])
    /\ h_pc' = "responded"
    /\ UNCHANGED <<h_req, r_response, r_pc, r_result, e_pc, e_result, crawlVars, net>>

(* Requests *)

HandlerUrls ==
    {None, Some([valid |-> FALSE]),
     Some([valid |-> TRUE, protocol |-> "ftp:", pathname |-> <<"/", "a">>, hash |-> ""]),
     Some([valid |-> TRUE, protocol |-> "http:", pathname |-> <<"/">>, hash |-> ""]),
     Some([valid |-> TRUE, protocol |-> "https:", pathname |-> <<"/", "a">>, hash |-> "#top"])}

\* payload.instructions: a string or a JSON number (an absent field takes
\* the path of a string: the optional chain yields undefined and ?? "")
InstructionKinds == {"string", "number"}

HandlerInit ==
    /\ PathIdle
    /\ CrawlIdle
    /\ PolicyIdle
    /\ ParseIdle
    /\ MatchIdle
    /\ net = <<>>
    /\ h_pc = "start"
    /\ h_req \in [jsonOk : BOOLEAN, hasKey : BOOLEAN, wantsStream : BOOLEAN, url : HandlerUrls,
                  instructions : InstructionKinds]
    /\ h_response = None
    /\ r_pc = "idle"
    /\ r_result = None
    /\ r_response = <<>>
    /\ e_pc = "idle"
    /\ e_result = None
    /\ h_processLog = <<>>
    /\ h_events = <<>>
    /\ h_closed = FALSE

HandlerNext ==
    \/ HandlerBadJson /\ UNCHANGED <<pathVars, policyVars, parseVars, matchVars>>
    \/ HandlerNoKey /\ UNCHANGED <<pathVars, policyVars, parseVars, matchVars>>
    \/ HandlerBadUrl /\ UNCHANGED <<pathVars, policyVars, parseVars, matchVars>>
    \/ HandlerRunRaises /\ UNCHANGED <<pathVars, policyVars, parseVars, matchVars>>
    \/ HandlerGather /\ UNCHANGED <<pathVars, policyVars, parseVars, matchVars>>
    \/ RobotsFetchResolves /\ UNCHANGED <<pathVars, policyVars, parseVars, matchVars>>
    \/ RobotsTextResolves /\ UNCHANGED <<pathVars, policyVars, parseVars, matchVars>>
    \/ RobotsFetchFails /\ UNCHANGED <<pathVars, policyVars, parseVars, matchVars>>
    \/ PolicyFetchResolves /\ UNCHANGED <<pathVars, policyVars, parseVars, matchVars>>
    \/ PolicyTextResolves /\ UNCHANGED <<pathVars, policyVars, parseVars, matchVars>>
    \/ PolicyFetchFails /\ UNCHANGED <<pathVars, policyVars, parseVars, matchVars>>
    \/ HandlerCallCrawl /\ UNCHANGED <<pathVars, policyVars, parseVars, matchVars>>
    \/ CrawlGateSkip /\ UNCHANGED <<pathVars, handlerVars, policyVars, parseVars, matchVars>>
    \/ CrawlIssueFetch /\ UNCHANGED <<pathVars, handlerVars, policyVars, parseVars, matchVars>>
    \/ CrawlFetchResolves /\ UNCHANGED <<pathVars, handlerVars, policyVars, parseVars, matchVars>>
    \/ CrawlCatch /\ UNCHANGED <<pathVars, handlerVars, policyVars, parseVars, matchVars>>
    \/ CrawlExtract /\ UNCHANGED <<pathVars, handlerVars, policyVars, parseVars, matchVars>>
    \/ HandlerRequestModel /\ UNCHANGED <<pathVars, policyVars, parseVars, matchVars>>
    \/ HandlerRespond /\ UNCHANGED <<pathVars, policyVars, parseVars, matchVars>>

SpecHandler == HandlerInit /\ [][HandlerNext]_vars

---------------------------------------------------------------------------
(* Claims about the request handler *)

\* position of the first request of this kind in net, 0 if none
FirstRequest(kind) ==
    IF \E i \in 1..Len(net) : net[i].kind = kind
    THEN CHOOSE i \in 1..Len(net) : net[i].kind = kind /\ \A j \in 1..(i - 1) : net[j].kind # kind
    ELSE 0

\* position of the first process-log entry with this step, 0 if none
FirstLogged(step) ==
    IF \E i \in 1..Len(h_processLog) : h_processLog[i].step = step
    THEN CHOOSE i \in 1..Len(h_processLog) :
            h_processLog[i].step = step /\ \A j \in 1..(i - 1) : h_processLog[j].step # step
    ELSE 0

\* C4: the crawl is sequenced after the robots result: crawlSite is not
\* entered, and no page fetch is issued, before fetchRobots has returned (a
\* rule set or absence); the crawl is given exactly what fetchRobots
\* returned; the robots fetch and the policy lookup are both issued before
\* either settles.
C4_CrawlAfterRobots ==
    /\ (c_pc # "idle" \/ PageFetchIssued) =>
          /\ r_pc = "done"
          /\ e_pc = "done"
          /\ c_robots = r_result
          /\ FirstLogged("Robots fetched") # 0
          /\ FirstLogged("Robots fetched") < FirstLogged("Fetching landing page snapshot")
    /\ PageFetchIssued =>
          /\ FirstRequest("robots") # 0
          /\ FirstRequest("robots") < FirstRequest("page")
    /\ (r_pc # "idle" \/ e_pc # "idle") =>
          /\ FirstRequest("robots") # 0
          /\ FirstRequest("policy") # 0

\* the policy lookup settled first, the robots fetch later with a rule set,
\* and the page fetch was then issued with that rule set
C4_Witness ==
    /\ PageFetchIssued
    /\ r_result # None
    /\ c_robots = r_result
    /\ r_result[1].rules.disallow # <<>>
    /\ FirstLogged("Existing policy lookup complete") < FirstLogged("Robots fetched")

\* the other interleaving: the robots fetch settled while the policy lookup
\* was still pending
C4_RobotsFirst ==
    /\ r_pc = "done"
    /\ e_pc \in {"fetching", "reading"}
    /\ c_pc = "idle"

---------------------------------------------------------------------------
(* JavaScript values and JSON text.                                        *)
(* A JSON text is a sequence of tokens: punctuation, white space, string   *)
(* literals, number literals and the literals true, false, null.  String   *)
(* escapes are not modelled: a string literal is one token.                *)

JUndef == [t |-> "undefined"]
JNull == [t |-> "null"]
JBool(b) == [t |-> "boolean", b |-> b]
JNum(n) == [t |-> "number", n |-> n]
JStr(s) == [t |-> "string", s |-> s]
JArr(items) == [t |-> "array", items |-> items]
\* fields: the own properties in insertion order, each <<key, value>>
JObj(fields) == [t |-> "object", fields |-> fields]

\* typeof v
typeOf(v) ==
    IF v.t \in {"null", "array", "object"} THEN "object" ELSE v.t

\* Boolean(v)
truthy(v) ==
    CASE v.t \in {"undefined", "null"} -> FALSE
      [] v.t = "boolean" -> v.b
      [] v.t = "number" -> v.n # 0
      [] v.t = "string" -> v.s # ""
      [] OTHER -> TRUE

hasOwn(v, key) ==
    v.t = "object" /\ \E i \in 1..Len(v.fields) : v.fields[i][1] = key

\* v.key for a v that is neither null nor undefined (those throw): the own
\* property of an object, undefined on an array or a primitive for the
\* property names the code reads
getProp(v, key) ==
    IF hasOwn(v, key)
    THEN v.fields[CHOOSE i \in 1..Len(v.fields) : v.fields[i][1] = key][2]
    ELSE JUndef

\* v[key] = value on an object under construction: a key already present
\* keeps its position and takes the new value
setProp(fields, key, value) ==
    IF \E i \in 1..Len(fields) : fields[i][1] = key
    THEN [i \in 1..Len(fields) |-> IF fields[i][1] = key THEN <<key, value>> ELSE fields[i]]
    ELSE Append(fields, <<key, value>>)

Punct(c) == [k |-> "punct", v |-> c]
WS == [k |-> "ws", v |-> " "]
StrTok(s) == [k |-> "string", v |-> s]
NumTok(n) == [k |-> "number", n |-> n]
LitTok(w) == [k |-> "literal", v |-> w]

isPunct(tok, c) == tok.k = "punct" /\ tok.v = c

RECURSIVE stringify(_)
RECURSIVE stringifyMembers(_, _)
RECURSIVE stringifyItems(_, _)

\* the members of an object from the i-th on, each on a line of its own
stringifyMembers(fields, i) ==
    IF i > Len(fields) THEN <<>>
    ELSE <<WS, StrTok(fields[i][1]), Punct(":"), WS>> \o stringify(fields[i][2])
         \o (IF i < Len(fields) THEN <<Punct(",")>> ELSE <<>>)
         \o stringifyMembers(fields, i + 1)

\* the items of an array from the i-th on; undefined is written as null
stringifyItems(items, i) ==
    IF i > Len(items) THEN <<>>
    ELSE <<WS>> \o (IF items[i].t = "undefined" THEN <<LitTok("null")>> ELSE stringify(items[i]))
         \o (IF i < Len(items) THEN <<Punct(",")>> ELSE <<>>)
         \o stringifyItems(items, i + 1)

\* JSON.stringify(v, null, 2) for a v that is not undefined: properties
\* whose value is undefined are left out
stringify(v) ==
    CASE v.t = "null" -> <<LitTok("null")>>
      [] v.t = "boolean" -> <<LitTok(IF v.b THEN "true" ELSE "false")>>
      [] v.t = "number" -> <<NumTok(v.n)>>
      [] v.t = "string" -> <<StrTok(v.s)>>
      [] v.t = "array" ->
            IF v.items = <<>> THEN <<Punct("["), Punct("]")>>
            ELSE <<Punct("[")>> \o stringifyItems(v.items, 1) \o <<WS, Punct("]")>>
      [] v.t = "object" ->
            LET defined == SelectSeq(v.fields, LAMBDA f : f[2].t # "undefined")
            IN IF defined = <<>> THEN <<Punct("{"), Punct("}")>>
               ELSE <<Punct("{")>> \o stringifyMembers(defined, 1) \o <<WS, Punct("}")>>

\* the result of a parse step: failure, or a value and the next position
ParseFail == [ok |-> FALSE, val |-> JUndef, next |-> 0]
ParseOk(val, next) == [ok |-> TRUE, val |-> val, next |-> next]

RECURSIVE skipWs(_, _)
\* the first position from i on that holds no white space
skipWs(toks, i) ==
    IF i <= Len(toks) /\ toks[i].k = "ws" THEN skipWs(toks, i + 1) ELSE i

RECURSIVE parseValue(_, _)
RECURSIVE parseElements(_, _, _)
RECURSIVE parseMembers(_, _, _)

\* elements of an array after "[" or ",": value, then "," or "]"
parseElements(toks, i, acc) ==
    LET r == parseValue(toks, i)
        j == skipWs(toks, r.next)
    IN IF ~r.ok \/ j > Len(toks) THEN ParseFail
       ELSE IF isPunct(toks[j], ",") THEN parseElements(toks, j + 1, Append(acc, r.val))
       ELSE IF isPunct(toks[j], "]") THEN ParseOk(JArr(Append(acc, r.val)), j + 1)
       ELSE ParseFail

\* members of an object after "{" or ",": string key, ":", value, then "," or "}"
parseMembers(toks, i, acc) ==
    LET k == skipWs(toks, i)
        c == skipWs(toks, k + 1)
        r == parseValue(toks, c + 1)
        j == skipWs(toks, r.next)
    IN IF k > Len(toks) \/ toks[k].k # "string" THEN ParseFail
       ELSE IF c > Len(toks) \/ ~isPunct(toks[c], ":") THEN ParseFail
       ELSE IF ~r.ok \/ j > Len(toks) THEN ParseFail
       ELSE IF isPunct(toks[j], ",")
            THEN parseMembers(toks, j + 1, setProp(acc, toks[k].v, r.val))
       ELSE IF isPunct(toks[j], "}")
            THEN ParseOk(JObj(setProp(acc, toks[k].v, r.val)), j + 1)
       ELSE ParseFail

\* one JSON value starting at or after position i0
parseValue(toks, i0) ==
    LET i == skipWs(toks, i0)
    IN IF i > Len(toks) THEN ParseFail
       ELSE CASE toks[i].k = "string" -> ParseOk(JStr(toks[i].v), i + 1)
              [] toks[i].k = "number" -> ParseOk(JNum(toks[i].n), i + 1)
              [] toks[i].k = "literal" ->
                    ParseOk(IF toks[i].v = "null" THEN JNull ELSE JBool(toks[i].v = "true"), i + 1)
              [] isPunct(toks[i], "[") ->
                    LET j == skipWs(toks, i + 1)
                    IN IF j <= Len(toks) /\ isPunct(toks[j], "]") THEN ParseOk(JArr(<<>>), j + 1)
                       ELSE parseElements(toks, i + 1, <<>>)
              [] isPunct(toks[i], "{") ->
                    LET j == skipWs(toks, i + 1)
                    IN IF j <= Len(toks) /\ isPunct(toks[j], "}") THEN ParseOk(JObj(<<>>), j + 1)
                       ELSE parseMembers(toks, i + 1, <<>>)
              [] OTHER -> ParseFail

\* a decoder that takes the first value and ignores what follows it
jsonParseLenient(toks) == parseValue(toks, 1)

\* JSON.parse: one value, then nothing but white space; not ok when it throws
jsonParse(toks) ==
    LET r == parseValue(toks, 1)
    IN IF r.ok /\ skipWs(toks, r.next) > Len(toks) THEN r ELSE ParseFail

---------------------------------------------------------------------------
(* page component: buildQuickPolicy, buildRateLimit, parsePolicy *)

\* lines 1003-1020: the keys of the label table of formatVerb
verbLabels ==
    {"all", "read_content", "read_metadata", "follow_link", "click_element", "scroll_page",
     "set_input_value", "submit_form", "execute_script", "play_media", "pause_media",
     "mute_media", "unmute_media", "upload_file", "download_file", "copy_to_clipboard"}

\* a builder for which "gentle" and "standard" give the same limit
buildRateLimitGentleOnly(rateLimit) ==
    IF rateLimit = "open" THEN JUndef
    ELSE JObj(<< <<"rate_limit", JObj(<< <<"max_requests", JNum(1)>>,
                                         <<"window_seconds", JNum(1)>> >>)>> >>)

buildRateLimit(rateLimit) ==
    IF rateLimit = "open" THEN JUndef
    ELSE IF rateLimit = "standard"
         THEN JObj(<< <<"rate_limit", JObj(<< <<"max_requests", JNum(5)>>,
                                              <<"window_seconds", JNum(10)>> >>)>> >>)
         ELSE JObj(<< <<"rate_limit", JObj(<< <<"max_requests", JNum(1)>>,
                                              <<"window_seconds", JNum(1)>> >>)>> >>)

HUMAN_IN_THE_LOOP == JObj(<< <<"human_in_the_loop", JBool(TRUE)>> >>)

\* form rules that ask for a human whatever the configuration says
formModifiersAlways(state) == HUMAN_IN_THE_LOOP

\* lines 861 and 867: the modifiers of the two form rules
formModifiers(state) ==
    IF state.allowForms /\ state.requireHumanForForms THEN HUMAN_IN_THE_LOOP ELSE JUndef

\* lines 848-876: the rules array
quickRules(state) ==
    << JObj(<< <<"verb", JStr("read_content")>>, <<"selector", JStr("*")>>,
               <<"allowed", JBool(state.allowReadContent)>> >>),
       JObj(<< <<"verb", JStr("read_metadata")>>, <<"selector", JStr("*")>>,
               <<"allowed", JBool(state.allowReadMetadata)>> >>),
       JObj(<< <<"verb", JStr("follow_link")>>, <<"selector", JStr("*")>>,
               <<"allowed", JBool(state.allowNavigation)>>,
               <<"modifiers", IF state.allowNavigation
                              THEN buildRateLimit(state.rateLimit) ELSE JUndef>> >>),
       JObj(<< <<"verb", JStr("set_input_value")>>,
               <<"selector", JStr("form input, form textarea, form select, form option, form button")>>,
               <<"allowed", JBool(state.allowForms)>>,
               <<"modifiers", formModifiers(state)>> >>),
       JObj(<< <<"verb", JStr("submit_form")>>, <<"selector", JStr("form")>>,
               <<"allowed", JBool(state.allowForms)>>,
               <<"modifiers", formModifiers(state)>> >>),
       JObj(<< <<"verb", JStr("execute_script")>>, <<"selector", JStr("*")>>,
               <<"allowed", JBool(FALSE)>> >>),
       JObj(<< <<"verb", JStr("upload_file")>>, <<"selector", JStr("input[type='file']")>>,
               <<"allowed", JBool(FALSE)>> >>),
       JObj(<< <<"verb", JStr("download_file")>>,
               <<"selector", JStr(IF state.allowDownloads THEN "*"
                                  ELSE "a[download], [role='button']")>>,
               <<"allowed", JBool(state.allowDownloads)>> >>) >>

Guideline(directive, description) ==
    JObj(<< <<"directive", JStr(directive)>>, <<"description", JStr(description)>> >>)

\* lines 878-905: the guidelines array, nulls filtered out
quickGuidelines(state) ==
    SelectSeq(
      << IF state.blockLogin
         THEN Guideline("MUST NOT",
                "Attempt to log in or submit credentials, MFA codes, or session tokens.")
         ELSE JNull,
         IF state.allowForms
         THEN Guideline(IF state.requireHumanForForms THEN "SHOULD" ELSE "SHOULD",
                IF state.requireHumanForForms
                THEN "Confirm with a human before submitting forms or irreversible actions."
                ELSE "Keep form submissions minimal and avoid sensitive personal data.")
         ELSE JNull,
         IF state.rateLimit = "gentle"
         THEN Guideline("SHOULD", "Throttle navigation to roughly one request per second.")
         ELSE JNull,
         IF state.rateLimit = "standard"
         THEN Guideline("SHOULD", "Stay within ~5 requests every 10 seconds to reduce load.")
         ELSE JNull >>,
      truthy)

\* a clean-up that leaves an undefined modifiers property in place
cleanedRuleKeep(rule) == rule

\* a clean-up that writes null where the modifiers are falsy
cleanedRuleNullModifiers(rule) ==
    IF ~truthy(getProp(rule, "modifiers"))
    THEN JObj(SelectSeq(rule.fields, LAMBDA f : f[1] # "modifiers")
              \o << <<"modifiers", JNull>> >>)
    ELSE rule

\* lines 913-917: a copy of the rule, without its modifiers key when the
\* value is falsy
cleanedRule(rule) ==
    IF ~truthy(getProp(rule, "modifiers"))
    THEN JObj(SelectSeq(rule.fields, LAMBDA f : f[1] # "modifiers"))
    ELSE rule

\* a builder whose rules all come out allowed
emittedRulesAllAllowed(state) ==
    [i \in 1..Len(quickRules(state)) |->
        JObj(setProp(cleanedRule(quickRules(state)[i]).fields, "allowed", JBool(TRUE)))]

\* lines 912-917: the rules as they stand in the policy object that is serialised
emittedRules(state) == [i \in 1..Len(quickRules(state)) |-> cleanedRule(quickRules(state)[i])]

RECURSIVE fromChars(_)
\* the string made of the given characters
fromChars(cs) == IF cs = <<>> THEN "" ELSE cs[1] \o fromChars(Tail(cs))

\* lines 907-919: the policy object
quickPolicyObject(state, now) ==
    JObj(<< <<"metadata",
              JObj(<< <<"schema_version", JStr("1.0.0")>>, <<"last_updated", JStr(now)>> >>
                   \o (IF trim(state.siteName) # <<>>
                       THEN << <<"author", JStr(fromChars(trim(state.siteName)))>> >> ELSE <<>>))>>,
            <<"resource_rules", JArr(emittedRules(state))>>,
            <<"action_guidelines", JArr(quickGuidelines(state))>> >>)

buildQuickPolicy(state, now) == stringify(quickPolicyObject(state, now))

ParsedPolicy(error, metadata, resourceRules, actionGuidelines) ==
    [error |-> error, metadata |-> metadata, resourceRules |-> resourceRules,
     actionGuidelines |-> actionGuidelines]

\* raw.trim() is empty: the text holds nothing but white space
isBlank(raw) == \A i \in 1..Len(raw) : raw[i].k = "ws"

\* a filter that also wants the rule to carry modifiers
isResourceRuleStrict(rule) ==
    /\ truthy(rule)
    /\ typeOf(getProp(rule, "verb")) = "string"
    /\ typeOf(getProp(rule, "selector")) = "string"
    /\ typeOf(getProp(rule, "allowed")) = "boolean"
    /\ typeOf(getProp(rule, "modifiers")) = "object"

\* lines 955-961: the filter on resource_rules entries
isResourceRule(rule) ==
    /\ truthy(rule)
    /\ typeOf(getProp(rule, "verb")) = "string"
    /\ typeOf(getProp(rule, "selector")) = "string"
    /\ typeOf(getProp(rule, "allowed")) = "boolean"

\* a mapping that loses the modifiers
toResourceRuleNoModifiers(rule) ==
    JObj(<< <<"verb", getProp(rule, "verb")>>, <<"selector", getProp(rule, "selector")>>,
            <<"allowed", getProp(rule, "allowed")>>, <<"modifiers", JUndef>> >>)

\* lines 963-968
toResourceRule(rule) ==
    JObj(<< <<"verb", getProp(rule, "verb")>>, <<"selector", getProp(rule, "selector")>>,
            <<"allowed", getProp(rule, "allowed")>>, <<"modifiers", getProp(rule, "modifiers")>> >>)

\* lines 975-981: the filter on action_guidelines entries
isActionGuideline(item) ==
    /\ truthy(item)
    /\ typeOf(getProp(item, "directive")) = "string"
    /\ typeOf(getProp(item, "description")) = "string"

\* lines 982-986
toActionGuideline(item) ==
    JObj(<< <<"directive", getProp(item, "directive")>>,
            <<"description", getProp(item, "description")>>,
            <<"exceptions", getProp(item, "exceptions")>> >>)

\* Array.isArray(v) ? v : []
arrayOrEmpty(v) == IF v.t = "array" THEN v.items ELSE <<>>

\* lines 949-950: metadata is kept when it is a truthy value of type "object"
keptMetadata(data) ==
    IF typeOf(getProp(data, "metadata")) = "object" /\ truthy(getProp(data, "metadata"))
    THEN getProp(data, "metadata") ELSE JUndef

SYNTAX_ERROR == "Unexpected token in JSON"
NULL_TYPE_ERROR == "Cannot read properties of null (reading 'metadata')"

\* lines 948-993: the try block on the decoded value; reading a property
\* of null throws a TypeError, which the catch turns into an error result
parseDecoded(data) ==
    IF data.t = "null"
    THEN ParsedPolicy(Some(NULL_TYPE_ERROR), JUndef, <<>>, <<>>)
    ELSE LET ruleCandidates == arrayOrEmpty(getProp(data, "resource_rules"))
             kept == SelectSeq(ruleCandidates, isResourceRule)
             guidelineCandidates == arrayOrEmpty(getProp(data, "action_guidelines"))
             keptGuidelines == SelectSeq(guidelineCandidates, isActionGuideline)
         IN ParsedPolicy(None, keptMetadata(data),
                         [i \in 1..Len(kept) |-> toResourceRule(kept[i])],
                         [i \in 1..Len(keptGuidelines) |-> toActionGuideline(keptGuidelines[i])])

parsePolicy(raw) ==
    IF isBlank(raw) THEN ParsedPolicy(None, JUndef, <<>>, <<>>)
    ELSE IF ~jsonParse(raw).ok THEN ParsedPolicy(Some(SYNTAX_ERROR), JUndef, <<>>, <<>>)
    ELSE parseDecoded(jsonParse(raw).val)

---------------------------------------------------------------------------
(* the quick builder and the parser exercised: inputs and steps *)

MaxTokens == 3
MaxEntries == 2

\* what the site-name field may hold
SiteNames == {<<>>, <<" ">>, <<"A">>, <<" ", "A", " ">>}

\* QuickBuilderState, lines 76-86
QuickStates ==
    [siteName : SiteNames, allowReadContent : BOOLEAN, allowReadMetadata : BOOLEAN,
     allowNavigation : BOOLEAN, allowForms : BOOLEAN, requireHumanForForms : BOOLEAN,
     blockLogin : BOOLEAN, rateLimit : {"gentle", "standard", "open"},
     allowDownloads : BOOLEAN]

\* new Date().toISOString() at the time of the call
Nows == {"2025-01-01T00:00:00.000Z", "2026-06-30T12:00:00.000Z"}

VALID_RULE ==
    JObj(<< <<"verb", JStr("read_content")>>, <<"selector", JStr("*")>>,
            <<"allowed", JBool(TRUE)>> >>)

\* entries a resource_rules array may hold
RuleEntries ==
    { VALID_RULE,
      JObj(<< <<"verb", JStr("submit_form")>>, <<"selector", JStr("form")>>,
              <<"allowed", JBool(FALSE)>>, <<"modifiers", HUMAN_IN_THE_LOOP>> >>),
      JObj(<< <<"verb", JStr("follow_link")>>, <<"selector", JStr("nav a")>>,
              <<"allowed", JBool(TRUE)>>, <<"modifiers", JNum(1)>> >>),
      JObj(<< <<"verb", JStr("x")>> >>),
      JObj(<< <<"verb", JNum(1)>>, <<"selector", JStr("*")>>, <<"allowed", JBool(TRUE)>> >>),
      JObj(<< <<"verb", JStr("x")>>, <<"selector", JNull>>, <<"allowed", JBool(TRUE)>> >>),
      JObj(<< <<"verb", JStr("x")>>, <<"selector", JStr("*")>>, <<"allowed", JStr("true")>> >>),
      JObj(<< <<"verb", JStr("x")>>, <<"selector", JStr("*")>>, <<"allowed", JNull>> >>),
      JObj(<<>>), JArr(<<>>), JNull, JNum(0), JNum(1), JStr("x"), JBool(TRUE), JBool(FALSE) }

\* entries an action_guidelines array may hold
GuidelineEntries ==
    { Guideline("MUST NOT", "Submit credentials or attempt to log in."),
      JObj(<< <<"directive", JStr("MAY")>>, <<"description", JStr("d")>>,
              <<"exceptions", JStr("e")>> >>),
      JObj(<< <<"directive", JStr("MAY")>> >>),
      JObj(<< <<"directive", JNum(1)>>, <<"description", JStr("d")>> >>),
      JNull, JStr("x") }

\* values a metadata property may hold
MetadataValues ==
    { JObj(<<>>), JObj(<< <<"schema_version", JStr("1.0.0")>> >>),
      JArr(<<>>), JArr(<< JNum(1) >>), JStr(""), JStr("x"), JNum(0), JNum(1),
      JBool(TRUE), JBool(FALSE), JNull }

\* lines 138-162: the text the parser tab starts with
SAMPLE_POLICY ==
    JObj(<< <<"metadata", JObj(<< <<"schema_version", JStr("1.0.0")>>,
                                  <<"last_updated", JStr("2025-01-01T00:00:00Z")>>,
                                  <<"author", JStr("Example Corp")>> >>)>>,
            <<"resource_rules",
              JArr(<< VALID_RULE,
                      JObj(<< <<"verb", JStr("follow_link")>>,
                              <<"selector", JStr("nav a, main a")>>,
                              <<"allowed", JBool(TRUE)>> >>) >>)>>,
            <<"action_guidelines",
              JArr(<< Guideline("MUST NOT", "Submit credentials or attempt to log in.") >>)>> >>)

\* documents typed or pasted into the parser tab
ParserDocuments ==
    {SAMPLE_POLICY}
    \cup {JObj(<< <<"metadata", m>>, <<"resource_rules", JArr(<< VALID_RULE >>)>> >>) :
            m \in MetadataValues}
    \cup {JObj(<< <<"resource_rules", JArr(rs)>> >>) : rs \in SeqsUpTo(RuleEntries, MaxEntries)}
    \cup {JObj(<< <<"resource_rules", v>> >>) : v \in {JNull, VALID_RULE, JStr("x")}}
    \cup {JObj(<< <<"action_guidelines", JArr(gs)>> >>) :
            gs \in SeqsUpTo(GuidelineEntries, MaxEntries)}
    \cup {JArr(<< VALID_RULE >>), JStr("metadata"), JBool(TRUE), JBool(FALSE)}

TokenAlphabet ==
    { Punct("{"), Punct("}"), Punct("["), Punct("]"), Punct(","), Punct(":"), WS,
      StrTok("a"), NumTok(1), LitTok("null") }

\* any short text, well formed or not
ShortTexts == SeqsUpTo(TokenAlphabet, MaxTokens)

ParserInputs == ShortTexts \cup {stringify(d) : d \in ParserDocuments}

PolicyInit ==
    /\ PathIdle
    /\ CrawlIdle
    /\ HandlerIdle
    /\ ParseIdle
    /\ MatchIdle
    /\ net = <<>>
    /\ q_policy = None
    /\ p_parsed = None
    /\ \/ /\ po_pc = "build"
          /\ q_state \in QuickStates
          /\ p_input = <<>>
       \/ /\ po_pc = "parse"
          /\ q_state = DEFAULT_QUICK_STATE
          /\ p_input \in ParserInputs

\* line 164: quickPolicy is computed from quickState
BuildQuickPolicy ==
    /\ po_pc = "build"
    /\ \E now \in Nows : q_policy' = Some(buildQuickPolicy(q_state, now))
    /\ po_pc' = "built"
    /\ UNCHANGED <<q_state, p_input, p_parsed>>

\* lines 438, 554, 165: the built policy is copied into the parser's text
\* area and parsedPolicy is computed from it
ParseBuilt ==
    /\ po_pc = "built"
    /\ p_input' = q_policy[1]
    /\ p_parsed' = Some(parsePolicy(q_policy[1]))
    /\ po_pc' = "parsed"
    /\ UNCHANGED <<q_state, q_policy>>

\* line 165: parsedPolicy is computed from parserInput
ParseInput ==
    /\ po_pc = "parse"
    /\ p_parsed' = Some(parsePolicy(p_input))
    /\ po_pc' = "parsed"
    /\ UNCHANGED <<q_state, q_policy, p_input>>

PolicyNext ==
    \/ BuildQuickPolicy /\ UNCHANGED <<pathVars, crawlVars, net, handlerVars, parseVars, matchVars>>
    \/ ParseBuilt /\ UNCHANGED <<pathVars, crawlVars, net, handlerVars, parseVars, matchVars>>
    \/ ParseInput /\ UNCHANGED <<pathVars, crawlVars, net, handlerVars, parseVars, matchVars>>

SpecPolicy == PolicyInit /\ [][PolicyNext]_vars

---------------------------------------------------------------------------
(* claims about buildQuickPolicy and parsePolicy *)

\* the built policy has been parsed back
RoundTripDone == po_pc = "parsed" /\ q_policy # None

\* an input of the parser tab has been parsed
InputParsed == po_pc = "parsed" /\ q_policy = None

\* the input decodes as JSON
Decodes(raw) == jsonParse(raw).ok
Decoded(raw) == jsonParse(raw).val

SameRule(a, b) ==
    /\ getProp(a, "verb") = getProp(b, "verb")
    /\ getProp(a, "selector") = getProp(b, "selector")
    /\ getProp(a, "allowed") = getProp(b, "allowed")
    /\ getProp(a, "modifiers") = getProp(b, "modifiers")

SameGuideline(a, b) ==
    /\ getProp(a, "directive") = getProp(b, "directive")
    /\ getProp(a, "description") = getProp(b, "description")

\* C6: for every configuration, parsing the built policy gives no error,
\* and the resourceRules and actionGuidelines of the result are the rules and
\* guidelines the builder emitted, in order, with the same verb, selector,
\* allowed, modifiers, directive and description.
C6_RoundTrip ==
    RoundTripDone =>
        LET parsed == p_parsed[1]
            rules == emittedRules(q_state)
            guidelines == quickGuidelines(q_state)
        IN /\ parsed.error = None
           /\ Len(parsed.resourceRules) = Len(rules)
           /\ \A i \in 1..Len(rules) : SameRule(parsed.resourceRules[i], rules[i])
           /\ Len(parsed.actionGuidelines) = Len(guidelines)
           /\ \A i \in 1..Len(guidelines) :
                 SameGuideline(parsed.actionGuidelines[i], guidelines[i])

\* a round trip of a configuration with a padded site name, a rate limit on
\* navigation, human confirmation on forms and three guidelines
C6_Witness ==
    /\ RoundTripDone
    /\ q_state.siteName = <<" ", "A", " ">>
    /\ q_state.allowNavigation /\ q_state.rateLimit = "standard"
    /\ q_state.allowForms /\ q_state.requireHumanForForms /\ q_state.blockLogin
    /\ getProp(p_parsed[1].resourceRules[3], "modifiers") = buildRateLimit("standard")
    /\ getProp(p_parsed[1].resourceRules[4], "modifiers") = HUMAN_IN_THE_LOOP
    /\ getProp(p_parsed[1].resourceRules[1], "modifiers") = JUndef
    /\ Len(p_parsed[1].actionGuidelines) = 3

\* the resource_rules entries of the built document that carry the verb
RulesWithVerb(doc, verb) ==
    LET entries == arrayOrEmpty(getProp(doc, "resource_rules"))
    IN {i \in 1..Len(entries) : getProp(entries[i], "verb") = JStr(verb)}

NeverAllowed(doc, verb) ==
    /\ RulesWithVerb(doc, verb) # {}
    /\ \A i \in RulesWithVerb(doc, verb) :
          getProp(getProp(doc, "resource_rules").items[i], "allowed") = JBool(FALSE)

\* C7: whatever the configuration, the document buildQuickPolicy produces
\* holds an execute_script rule and an upload_file rule, and every such rule
\* has allowed = false.
C7_ScriptAndUploadDisallowed ==
    (q_policy # None) =>
        /\ Decodes(q_policy[1])
        /\ NeverAllowed(Decoded(q_policy[1]), "execute_script")
        /\ NeverAllowed(Decoded(q_policy[1]), "upload_file")

\* a document built with every toggle that grants something switched on
C7_Witness ==
    /\ po_pc = "built"
    /\ q_state.allowReadContent /\ q_state.allowReadMetadata /\ q_state.allowNavigation
    /\ q_state.allowForms /\ q_state.allowDownloads
    /\ ~q_state.requireHumanForForms /\ ~q_state.blockLogin /\ q_state.rateLimit = "open"
    /\ NeverAllowed(Decoded(q_policy[1]), "execute_script")

\* C8: parsePolicy returns an error exactly when the input does not decode
\* as JSON; an error result has empty resourceRules, empty actionGuidelines
\* and no metadata; every input that decodes, null included, gives a result
\* without error.
C8_ErrorIffUndecodable ==
    InputParsed =>
        /\ (p_parsed[1].error # None) <=> ~Decodes(p_input)
        /\ (p_parsed[1].error # None) =>
              /\ p_parsed[1].resourceRules = <<>>
              /\ p_parsed[1].actionGuidelines = <<>>
              /\ p_parsed[1].metadata = JUndef

\* the entries of resource_rules that are objects with a string verb, a
\* string selector and a boolean allowed
QualifyingEntries(entries) ==
    SelectSeq(entries, LAMBDA e :
        /\ e.t = "object"
        /\ hasOwn(e, "verb") /\ getProp(e, "verb").t = "string"
        /\ hasOwn(e, "selector") /\ getProp(e, "selector").t = "string"
        /\ hasOwn(e, "allowed") /\ getProp(e, "allowed").t = "boolean")

\* the input decodes to a document with a resource_rules array
HasRuleArray(raw) ==
    /\ Decodes(raw)
    /\ Decoded(raw).t = "object"
    /\ getProp(Decoded(raw), "resource_rules").t = "array"

\* C9: for an input that decodes to a document with a resource_rules
\* array, the resourceRules returned are the entries that are objects with a
\* string verb, a string selector and a boolean allowed, in input order, with
\* modifiers passed through; the other entries are dropped and no error is
\* reported.
C9_ResourceRuleFilter ==
    (InputParsed /\ HasRuleArray(p_input)) =>
        LET kept == QualifyingEntries(getProp(Decoded(p_input), "resource_rules").items)
            parsed == p_parsed[1]
        IN /\ parsed.error = None
           /\ Len(parsed.resourceRules) = Len(kept)
           /\ \A i \in 1..Len(kept) : SameRule(parsed.resourceRules[i], kept[i])

\* [{"verb":"x"}] gives an empty list and no error
C9_Witness ==
    /\ InputParsed
    /\ HasRuleArray(p_input)
    /\ getProp(Decoded(p_input), "resource_rules").items = << JObj(<< <<"verb", JStr("x")>> >>) >>
    /\ p_parsed[1].resourceRules = <<>>
    /\ p_parsed[1].error = None

\* a list that mixes a malformed entry with a rule carrying modifiers keeps
\* only the rule, modifiers included
C9_WitnessMixed ==
    /\ InputParsed
    /\ HasRuleArray(p_input)
    /\ Len(getProp(Decoded(p_input), "resource_rules").items) = 2
    /\ getProp(Decoded(p_input), "resource_rules").items[1] = JNull
    /\ Len(p_parsed[1].resourceRules) = 1
    /\ getProp(p_parsed[1].resourceRules[1], "modifiers") = HUMAN_IN_THE_LOOP

\* C10: the result carries metadata only when the decoded metadata value
\* is a plain object; for an array, a string, a number, a boolean or null it
\* carries none.
C10_MetadataPlainObjectOnly ==
    (InputParsed /\ Decodes(p_input) /\ p_parsed[1].metadata # JUndef) =>
        getProp(Decoded(p_input), "metadata").t = "object"

---------------------------------------------------------------------------
(* parseRobots called on its own: texts written line by line *)

\* a line of a robots text, with what the line is: the kind of its key, its
\* value, and for a user-agent line whether the value is exactly "*",
\* whether it contains the agent token, and whether it is the identity
\* getUserAgent() announces
RobotsLine(text, kind, value, star, token, announced) ==
    [text |-> text, kind |-> kind, value |-> value, star |-> star, token |-> token,
     announced |-> announced]

\* User-agent: *
L_UA_STAR ==
    RobotsLine(<<"U", "s", "e", "r", "-", "a", "g", "e", "n", "t", ":", " ", "*">>,
               "ua", <<"*">>, TRUE, FALSE, FALSE)

\* user-agent: other-bot
L_UA_OTHER_BOT ==
    RobotsLine(<<"u", "s", "e", "r", "-", "a", "g", "e", "n", "t", ":", " ", "o", "t", "h", "e", "r", "-", "b", "o", "t">>,
               "ua", <<"o", "t", "h", "e", "r", "-", "b", "o", "t">>, FALSE, FALSE, FALSE)

\* USER-AGENT: My-Agent-Permissions-Bot
L_UA_TOKEN ==
    RobotsLine(<<"U", "S", "E", "R", "-", "A", "G", "E", "N", "T", ":", " ", "M", "y", "-", "A", "g", "e", "n", "t", "-", "P", "e", "r", "m", "i", "s", "s", "i", "o", "n", "s", "-", "B", "o", "t">>,
               "ua", <<"M", "y", "-", "A", "g", "e", "n", "t", "-", "P", "e", "r", "m", "i", "s", "s", "i", "o", "n", "s", "-", "B", "o", "t">>, FALSE, TRUE, FALSE)

\* User-agent: AgentPermissionsPreviewBot/0.1
L_UA_ANNOUNCED ==
    RobotsLine(<<"U", "s", "e", "r", "-", "a", "g", "e", "n", "t", ":", " ", "A", "g", "e", "n", "t", "P", "e", "r", "m", "i", "s", "s", "i", "o", "n", "s", "P", "r", "e", "v", "i", "e", "w", "B", "o", "t", "/", "0", ".", "1">>,
               "ua", <<"A", "g", "e", "n", "t", "P", "e", "r", "m", "i", "s", "s", "i", "o", "n", "s", "P", "r", "e", "v", "i", "e", "w", "B", "o", "t", "/", "0", ".", "1">>, FALSE, FALSE, TRUE)

\* Disallow: /a
L_DISALLOW_A ==
    RobotsLine(<<"D", "i", "s", "a", "l", "l", "o", "w", ":", " ", "/", "a">>,
               "disallow", <<"/", "a">>, FALSE, FALSE, FALSE)

\* Allow: /b
L_ALLOW_B ==
    RobotsLine(<<"A", "l", "l", "o", "w", ":", " ", "/", "b">>,
               "allow", <<"/", "b">>, FALSE, FALSE, FALSE)

\*  Disallow : /c:d 
L_DISALLOW_SPACED ==
    RobotsLine(<<" ", "D", "i", "s", "a", "l", "l", "o", "w", " ", ":", " ", "/", "c", ":", "d", " ">>,
               "disallow", <<"/", "c", ":", "d">>, FALSE, FALSE, FALSE)

\* Disallow:
L_DISALLOW_EMPTY ==
    RobotsLine(<<"D", "i", "s", "a", "l", "l", "o", "w", ":">>,
               "disallow", <<>>, FALSE, FALSE, FALSE)

\* Crawl-delay: 2
L_DELAY_2 ==
    RobotsLine(<<"C", "r", "a", "w", "l", "-", "d", "e", "l", "a", "y", ":", " ", "2">>,
               "delay", <<"2">>, FALSE, FALSE, FALSE)

\* crawl-delay: 0.5s
L_DELAY_HALF ==
    RobotsLine(<<"c", "r", "a", "w", "l", "-", "d", "e", "l", "a", "y", ":", " ", "0", ".", "5", "s">>,
               "delay", <<"0", ".", "5", "s">>, FALSE, FALSE, FALSE)

\* Crawl-delay: -1
L_DELAY_NEGATIVE ==
    RobotsLine(<<"C", "r", "a", "w", "l", "-", "d", "e", "l", "a", "y", ":", " ", "-", "1">>,
               "delay", <<"-", "1">>, FALSE, FALSE, FALSE)

\* Crawl-delay: soon
L_DELAY_WORD ==
    RobotsLine(<<"C", "r", "a", "w", "l", "-", "d", "e", "l", "a", "y", ":", " ", "s", "o", "o", "n">>,
               "delay", <<"s", "o", "o", "n">>, FALSE, FALSE, FALSE)

\* # Disallow: /
L_COMMENT ==
    RobotsLine(<<"#", " ", "D", "i", "s", "a", "l", "l", "o", "w", ":", " ", "/">>,
               "other", <<>>, FALSE, FALSE, FALSE)

RobotsLines ==
    {L_UA_STAR, L_UA_OTHER_BOT, L_UA_TOKEN, L_UA_ANNOUNCED,
     L_DISALLOW_A, L_ALLOW_B, L_DISALLOW_SPACED, L_DISALLOW_EMPTY,
     L_DELAY_2, L_DELAY_HALF, L_DELAY_NEGATIVE, L_DELAY_WORD,
     L_COMMENT}

\* longest text, in lines
MaxLines == 3

\* texts of two and three blocks: each block a user-agent line and one
\* allow or disallow line under it
BlockHeads == {L_UA_STAR, L_UA_OTHER_BOT, L_UA_TOKEN}
BlockBodies == {L_DISALLOW_A, L_ALLOW_B, L_DISALLOW_SPACED}
BlockTexts ==
    {<<u1, d1, u2, d2>> : u1 \in BlockHeads, d1 \in BlockBodies,
                          u2 \in BlockHeads, d2 \in BlockBodies}
    \cup {<<L_UA_STAR, L_DISALLOW_A, L_UA_OTHER_BOT, L_DISALLOW_SPACED, L_UA_TOKEN, L_ALLOW_B>>}

\* line terminators a robots text uses
Eols == {<<"\n">>, <<"\r", "\n">>}

RECURSIVE JoinText(_, _)
\* the text made of the lines, each but the last followed by eol
JoinText(ls, eol) ==
    IF ls = <<>> THEN <<>>
    ELSE IF Len(ls) = 1 THEN ls[1].text
         ELSE ls[1].text \o eol \o JoinText(Tail(ls), eol)

ParseInit ==
    /\ PathIdle
    /\ CrawlIdle
    /\ HandlerIdle
    /\ PolicyIdle
    /\ MatchIdle
    /\ net = <<>>
    /\ pr_pc = "call"
    /\ pr_lines \in SeqsUpTo(RobotsLines, MaxLines) \cup BlockTexts
    /\ \E eol \in Eols : pr_content = JoinText(pr_lines, eol)
    /\ pr_rules = RobotsRules(<<>>, <<>>, None)

\* one call of parseRobots
ParseRobots ==
    /\ pr_pc = "call"
    /\ pr_rules' = parseRobots(pr_content)
    /\ pr_pc' = "done"
    /\ UNCHANGED <<pr_lines, pr_content>>

ParseNext ==
    \/ ParseRobots /\ UNCHANGED <<pathVars, crawlVars, net, handlerVars, policyVars, matchVars>>

SpecParse == ParseInit /\ [][ParseNext]_vars

---------------------------------------------------------------------------
(* Claims about parseRobots *)

\* the user-agent line opens a block addressed to this crawler: its value is
\* exactly "*" or contains the agent token
OpensMatchingBlock(l) == l.kind = "ua" /\ (l.star \/ l.token)

\* position of the first matching user-agent line; past the end if none
FirstMatching(ls) ==
    IF \E i \in 1..Len(ls) : OpensMatchingBlock(ls[i])
    THEN CHOOSE i \in 1..Len(ls) :
            OpensMatchingBlock(ls[i]) /\ \A j \in 1..(i - 1) : ~OpensMatchingBlock(ls[j])
    ELSE Len(ls) + 1

\* the lines of this kind after position first that carry a value
DirectivesAfter(ls, first, kind) ==
    {i \in (first + 1)..Len(ls) : ls[i].kind = kind /\ ls[i].value # <<>>}

\* every entry of the list is the value of one of the lines at positions
\* from, and there are no more entries than such lines
ComesFrom(list, ls, from) ==
    /\ Len(list) <= Cardinality(from)
    /\ \A k \in 1..Len(list) : \E i \in from : ls[i].value = list[k]

\* C11: when no user-agent line has a value that is exactly "*" or
\* contains the agent token, parseRobots returns the empty rule set; and no
\* directive placed before the first matching user-agent line enters the
\* rule set.
C11_NoLeakOutsideBlock ==
    (pr_pc = "done") =>
        LET first == FirstMatching(pr_lines)
        IN /\ (first > Len(pr_lines)) => pr_rules = RobotsRules(<<>>, <<>>, None)
           /\ ComesFrom(pr_rules.disallow, pr_lines, DirectivesAfter(pr_lines, first, "disallow"))
           /\ ComesFrom(pr_rules.allow, pr_lines, DirectivesAfter(pr_lines, first, "allow"))
           /\ (pr_rules.crawlDelay # None) =>
                 DirectivesAfter(pr_lines, first, "delay") # {}

\* a text whose only block is addressed to other-bot gives the empty rule set
C11_Witness ==
    /\ pr_pc = "done"
    /\ pr_lines = <<L_UA_OTHER_BOT, L_DISALLOW_A, L_DELAY_2>>
    /\ pr_rules = RobotsRules(<<>>, <<>>, None)

\* a directive ahead of the first matching block stays out, one after it
\* goes in
C11_WitnessLeading ==
    /\ pr_pc = "done"
    /\ pr_lines = <<L_DISALLOW_A, L_UA_STAR, L_ALLOW_B>>
    /\ pr_rules = RobotsRules(<<>>, << <<"/", "b">> >>, None)

\* lib/robots line 1: "AgentPermissionsPreviewBot/0.1"
DEFAULT_USER_AGENT ==
    <<"A", "g", "e", "n", "t", "P", "e", "r", "m", "i", "s", "s", "i", "o", "n", "s", "P", "r", "e", "v", "i", "e", "w", "B", "o", "t", "/", "0", ".", "1">>

\* lib/robots lines 14-16: the value sent in the User-Agent header
getUserAgent == DEFAULT_USER_AGENT

\* the user-agent line names the identity the crawler announces
AddressedToAnnounced(l) == l.kind = "ua" /\ l.announced /\ l.value = getUserAgent

\* the text has a user-agent line, and every one names the announced identity
OnlyAnnouncedBlocks(ls) ==
    /\ \E i \in 1..Len(ls) : ls[i].kind = "ua"
    /\ \A i \in 1..Len(ls) : ls[i].kind = "ua" => AddressedToAnnounced(ls[i])

FirstUserAgent(ls) ==
    CHOOSE i \in 1..Len(ls) : ls[i].kind = "ua" /\ \A j \in 1..(i - 1) : ls[j].kind # "ua"

InList(list, value) == \E k \in 1..Len(list) : list[k] = value

\* C12: the agent token a user-agent value is matched against is the
\* identity the crawler announces in its User-Agent header: when the only
\* blocks of a robots text are addressed to that identity, the allow and
\* disallow directives that follow are in the rule set.
C12_AnnouncedIdentityApplies ==
    (pr_pc = "done" /\ OnlyAnnouncedBlocks(pr_lines)) =>
        LET first == FirstUserAgent(pr_lines)
        IN /\ \A i \in DirectivesAfter(pr_lines, first, "disallow") :
                 InList(pr_rules.disallow, pr_lines[i].value)
           /\ \A i \in DirectivesAfter(pr_lines, first, "allow") :
                 InList(pr_rules.allow, pr_lines[i].value)

\* the number is below zero
IsNegative(number) ==
    /\ number.negative
    /\ \E i \in 1..Len(number.whole \o number.fraction) :
          (number.whole \o number.fraction)[i] # "0"

\* the line stands in a block that applies: the nearest user-agent line
\* above it opens a matching block
InMatchingBlock(ls, i) ==
    \E u \in 1..(i - 1) :
        /\ OpensMatchingBlock(ls[u])
        /\ \A j \in (u + 1)..(i - 1) : ls[j].kind # "ua"

\* the crawl-delay lines of applicable blocks whose value is a finite number
FiniteDelays(ls) ==
    {i \in 1..Len(ls) : /\ ls[i].kind = "delay"
                        /\ InMatchingBlock(ls, i)
                        /\ parseFloatFinite(ls[i].value) # None}

\* C13: the crawlDelay of the rule set parseRobots returns is absent or a
\* finite number that is not negative; when crawl-delay lines of applicable
\* blocks carry finite values, the last of them in file order is kept.
C13_CrawlDelayNonNegative ==
    (pr_pc = "done") =>
        /\ pr_rules.crawlDelay = None \/ ~IsNegative(pr_rules.crawlDelay[1])
        /\ FiniteDelays(pr_lines) # {} =>
              LET last == CHOOSE i \in FiniteDelays(pr_lines) :
                              \A j \in FiniteDelays(pr_lines) : j <= i
              IN pr_rules.crawlDelay = parseFloatFinite(pr_lines[last].value)

\* the last finite crawl-delay of the applicable blocks is the one kept
C13_LastDelayKept ==
    (pr_pc = "done" /\ FiniteDelays(pr_lines) # {}) =>
        LET last == CHOOSE i \in FiniteDelays(pr_lines) : \A j \in FiniteDelays(pr_lines) : j <= i
        IN pr_rules.crawlDelay = parseFloatFinite(pr_lines[last].value)

---------------------------------------------------------------------------
(* matchesRule called on its own *)

\* longest rule path drawn
MaxPatternLen == 3

MatchChars == {"/", "a", "$"}

MatchInit ==
    /\ PathIdle
    /\ CrawlIdle
    /\ HandlerIdle
    /\ PolicyIdle
    /\ ParseIdle
    /\ net = <<>>
    /\ mr_pc = "call"
    /\ mr_targetPath \in SeqsUpTo(MatchChars, MaxPathLen)
    /\ mr_rulePath \in SeqsUpTo(MatchChars, MaxPatternLen)
    /\ mr_result = FALSE

\* one call of matchesRule
MatchRule ==
    /\ mr_pc = "call"
    /\ mr_result' = matchesRule(mr_targetPath, mr_rulePath)
    /\ mr_pc' = "done"
    /\ UNCHANGED <<mr_targetPath, mr_rulePath>>

MatchNext ==
    \/ MatchRule /\ UNCHANGED <<pathVars, crawlVars, net, handlerVars, policyVars, parseVars>>

SpecMatch == MatchInit /\ [][MatchNext]_vars

---------------------------------------------------------------------------
(* Claims about matchesRule *)

\* C14: matchesRule(path, "/") and matchesRule(path, "") are true for
\* every path; a rule set whose disallow list contains "/" and whose allow
\* list matches nothing refuses every path.
C14_RootMatchesAll ==
    /\ matchesRule(pa_path, <<"/">>)
    /\ matchesRule(pa_path, <<>>)
    /\ (/\ pa_pc = "done"
        /\ pa_rules # None
        /\ InList(pa_rules[1].disallow, <<"/">>)
        /\ ~SomeAllowMatches) => pa_allowed = FALSE

\* a path that does not begin with "/" is refused by disallow "/", next to
\* an allow entry that does not match it
C14_Witness ==
    /\ pa_pc = "done"
    /\ pa_path = <<"a">>
    /\ pa_rules # None
    /\ pa_rules[1].disallow = << <<"/", "a">>, <<"/">> >>
    /\ pa_rules[1].allow = << <<"/", "a", "$">> >>
    /\ pa_allowed = FALSE

\* text begins with prefix
IsPrefix(prefix, text) ==
    /\ Len(prefix) <= Len(text)
    /\ \A i \in 1..Len(prefix) : text[i] = prefix[i]

\* C15: for every path and pattern p, matchesRule(path, p + "$") is true
\* iff path equals p; a pattern that does not end in "$" and is neither ""
\* nor "/" matches exactly the paths that begin with the pattern.
C15_ExactOrPrefix ==
    (mr_pc = "done") =>
        /\ (mr_rulePath # <<>> /\ mr_rulePath[Len(mr_rulePath)] = "$") =>
              (mr_result <=> mr_targetPath = SubSeq(mr_rulePath, 1, Len(mr_rulePath) - 1))
        /\ (/\ mr_rulePath \notin {<<>>, <<"/">>}
            /\ mr_rulePath[Len(mr_rulePath)] # "$") =>
              (mr_result <=> IsPrefix(mr_rulePath, mr_targetPath))

\* "/a$" against "/a": the exact match
C15_Witness ==
    /\ mr_pc = "done"
    /\ mr_rulePath = <<"/", "a", "$">>
    /\ mr_targetPath = <<"/", "a">>
    /\ mr_result = TRUE

\* "/$" against "/a": a prefix that is not an exact match is refused
C15_WitnessRefused ==
    /\ mr_pc = "done"
    /\ mr_rulePath = <<"/", "$">>
    /\ mr_targetPath = <<"/", "a">>
    /\ mr_result = FALSE

---------------------------------------------------------------------------
(* Claims about crawlSite: absence of rules, failures, log and pages *)

\* C16: with an absent rule set isPathAllowed returns true for every
\* path, and a crawl that was handed no robots information is never stopped
\* by the robots gate: it issues the page fetch and logs no robots skip.
C16_AbsentRulesNeverBlock ==
    /\ \A path \in Paths : isPathAllowed(path, None)
    /\ (c_robots = None /\ ReachesGate) =>
          /\ isPathAllowed(c_targetUrl.pathname, None)
          /\ (c_pc # "call") => PageFetchIssued
          /\ \A i \in 1..Len(c_log) : c_log[i].reason # Some(SKIPPED_REASON)

\* a crawl without robots information, respectRobots left at its default,
\* that fetched the page and summarised it
C16_Witness ==
    /\ c_robots = None
    /\ ReachesGate
    /\ c_options.respectRobots = None
    /\ c_pc = "returned"
    /\ PageFetchIssued
    /\ Len(c_pages) = 1

---------------------------------------------------------------------------
(* Claims about fetchRobots *)

\* the last thing the robots fetch delivered
LastRobotsEvent == r_response[Len(r_response)]

\* the robots fetch resolved with a successful response and its body was read
RobotsBodyRead ==
    /\ Len(r_response) = 2
    /\ r_response[1].ev = "status"
    /\ responseOk(r_response[1].status)
    /\ r_response[1].status # 404
    /\ r_response[2].ev = "body"

\* C17: fetchRobots never raises; for a 404, any other unsuccessful
\* status, or a failure of the fetch or of the body read it returns absence;
\* only for a successful response does it return the raw text together with
\* the rule set parsed from that text.
C17_FetchRobotsAbsence ==
    /\ r_pc \in {"idle", "fetching", "reading", "done"}
    /\ (r_pc = "done") =>
          /\ r_response # <<>>
          /\ (LastRobotsEvent.ev = "threw") => r_result = None
          /\ (LastRobotsEvent.ev = "status") =>
                /\ ~responseOk(LastRobotsEvent.status) \/ LastRobotsEvent.status = 404
                /\ r_result = None
          /\ (LastRobotsEvent.ev = "body") =>
                /\ RobotsBodyRead
                /\ r_result = Some(RobotsInfo(LastRobotsEvent.raw, parseRobots(LastRobotsEvent.raw)))
          /\ (r_result # None) => RobotsBodyRead

\* the body read failed after a successful response: absence
C17_Witness ==
    /\ r_pc = "done"
    /\ Len(r_response) = 2
    /\ r_response[1] = [ev |-> "status", status |-> 200]
    /\ r_response[2] = [ev |-> "threw"]
    /\ r_result = None

\* a 500 gives absence
C17_WitnessStatus ==
    /\ r_pc = "done"
    /\ r_response = <<[ev |-> "status", status |-> 500]>>
    /\ r_result = None

\* a successful response gives the text and the rules parsed from it
C17_WitnessParsed ==
    /\ r_pc = "done"
    /\ RobotsBodyRead
    /\ r_result # None
    /\ r_result[1].raw = ROBOTS_DISALLOW_A
    /\ r_result[1].rules = RobotsRules(<< <<"/", "a">> >>, <<>>, None)

\* the catch block ran: the fetch, the body read or the parse raised
CrawlRaised == c_thrown # None

\* C18: when the page fetch, or anything after it inside the crawl,
\* raises, crawlSite does not raise: it returns no pages and a log with an
\* entry that carries the error's message as its reason and has no status.
C18_FailureIsLogged ==
    CrawlRaised =>
        /\ c_pc = "returned"
        /\ c_pages = <<>>
        /\ \E i \in 1..Len(c_log) :
              /\ c_log[i].status = None
              /\ c_log[i].url = c_normalizedUrl[1]
              /\ c_thrown[1].isError => c_log[i].reason = Some(c_thrown[1].message)
              /\ ~c_thrown[1].isError => c_log[i].reason = Some("Unknown error")

\* the fetch itself failed with an Error
C18_Witness ==
    /\ CrawlRaised
    /\ c_thrown[1].isError
    /\ c_response = None
    /\ c_pc = "returned"
    /\ c_log = <<CrawlLogEntry(c_normalizedUrl[1], None, Some("fetch failed"))>>

\* the body read failed after a successful HTML response
C18_WitnessAfterResponse ==
    /\ CrawlRaised
    /\ c_response # None
    /\ c_pc = "returned"
    /\ c_pages = <<>>
    /\ Len(c_log) = 2

\* the response the page fetch resolved with is successful and HTML
SuccessfulHtml ==
    /\ c_response # None
    /\ responseOk(c_response[1].status)
    /\ c_response[1].contentType # None
    /\ c_response[1].contentType[1] \in HtmlContentTypes

\* C19: an invocation attempts at most one page fetch and its log holds
\* one entry per attempted fetch: whatever the outcome, the returned log
\* never holds more than one entry and pages never more than one
\* PageSummary.
C19_OneLogEntryPerFetch ==
    /\ Cardinality({i \in 1..Len(net) : net[i].kind = "page"}) <= 1
    /\ Len(c_pages) <= 1
    /\ (c_pc = "returned") => Len(c_log) <= 1

\* at most one page fetch is attempted and at most one page is returned
C19_SingleFetchSinglePage ==
    /\ Cardinality({i \in 1..Len(net) : net[i].kind = "page"}) <= 1
    /\ Len(c_pages) <= 1

\* C20: when the response is unsuccessful, or successful without a
\* content type that indicates HTML, crawlSite returns no pages and a log
\* whose only entry is the fetch entry with the response status; a
\* PageSummary is appended only for a successful HTML response, and then
\* exactly one.
C20_PagesOnlyForHtml ==
    /\ (c_pc = "returned" /\ c_response # None /\ ~SuccessfulHtml) =>
          /\ c_pages = <<>>
          /\ c_log = <<CrawlLogEntry(c_normalizedUrl[1], Some(c_response[1].status),
                                     Some(FETCHED_REASON))>>
    /\ (c_pages # <<>>) => (SuccessfulHtml /\ Len(c_pages) = 1)
    /\ (c_pc = "returned" /\ SuccessfulHtml /\ ~CrawlRaised) => Len(c_pages) = 1

\* a successful response that is not HTML: the fetch entry alone
C20_Witness ==
    /\ c_pc = "returned"
    /\ c_response = Some([status |-> 200, contentType |-> Some("application/json")])
    /\ c_pages = <<>>
    /\ Len(c_log) = 1
    /\ c_log[1].status = Some(200)

\* a 404 with an HTML content type: no page
C20_WitnessUnsuccessful ==
    /\ c_pc = "returned"
    /\ c_response = Some([status |-> 404, contentType |-> Some("text/html; charset=utf-8")])
    /\ c_pages = <<>>
    /\ c_log[1].status = Some(404)

\* a successful HTML response: one page
C20_WitnessPage ==
    /\ c_pc = "returned"
    /\ SuccessfulHtml
    /\ Len(c_pages) = 1
    /\ Len(c_log) = 1

---------------------------------------------------------------------------
(* Claims about crawlSite: URL normalisation and truncation *)

\* the target parsed, and its scheme is neither http nor https
ForeignScheme == c_targetUrl.valid /\ c_targetUrl.protocol \notin {"http:", "https:"}

\* the target's URL without its fragment
WithoutFragment ==
    [protocol |-> c_targetUrl.protocol, pathname |-> c_targetUrl.pathname, hash |-> ""]

\* C21: for a target whose scheme is neither http nor https, crawlSite
\* returns no pages and an empty log and issues no fetch; for an http/https
\* target the URL that is fetched and recorded in the log entries and the
\* PageSummary is the target's URL with the fragment removed.
C21_SchemeAndFragment ==
    /\ ForeignScheme =>
          /\ c_pc \in {"call", "returned"}
          /\ net = <<>>
          /\ c_log = <<>>
          /\ c_pages = <<>>
    /\ ReachesGate =>
          /\ \A i \in 1..Len(net) : net[i].url = WithoutFragment
          /\ \A i \in 1..Len(c_log) : c_log[i].url = WithoutFragment
          /\ \A i \in 1..Len(c_pages) : c_pages[i].url = WithoutFragment

\* a target with a fragment was fetched, logged and summarised without it
C21_Witness ==
    /\ ReachesGate
    /\ c_targetUrl.hash = "#top"
    /\ c_pc = "returned"
    /\ Len(net) = 1 /\ net[1].url.hash = ""
    /\ Len(c_log) = 1 /\ c_log[1].url.hash = ""
    /\ Len(c_pages) = 1 /\ c_pages[1].url.hash = ""

\* an ftp target came back empty
C21_WitnessForeign ==
    /\ ForeignScheme
    /\ c_pc = "returned"
    /\ net = <<>> /\ c_log = <<>> /\ c_pages = <<>>

---------------------------------------------------------------------------
(* Claims about POST: configuration fault, streaming *)

\* the body decoded and no API key is configured
KeyMissing == h_req.jsonOk /\ ~h_req.hasKey

\* C22: when the API key is missing the request is rejected at once with
\* an error response: no robots fetch, no existing-policy lookup, no page
\* fetch and no model call is ever issued for it, with and without
\* ?stream=1.
C22_MissingKeyRejected ==
    KeyMissing =>
        /\ net = <<>>
        /\ r_pc = "idle" /\ e_pc = "idle" /\ c_pc = "idle"
        /\ h_processLog = <<>> /\ h_events = <<>>
        /\ h_pc \in {"start", "rejected"}
        /\ (h_pc = "rejected") =>
              /\ h_response # None
              /\ h_response[1].status = 500
              /\ h_response[1].error = "OPENAI_API_KEY is not configured on the server."

\* a streaming request with a usable URL, rejected for the missing key
C22_Witness ==
    /\ KeyMissing
    /\ h_req.wantsStream
    /\ h_req.url # None /\ h_req.url[1].valid /\ h_req.url[1].protocol = "https:"
    /\ h_pc = "rejected"
    /\ h_response[1].status = 500
    /\ net = <<>>

\* the same request without ?stream=1
C22_WitnessJson ==
    /\ KeyMissing
    /\ ~h_req.wantsStream
    /\ h_req.url # None /\ h_req.url[1].valid /\ h_req.url[1].protocol = "https:"
    /\ h_pc = "rejected"
    /\ h_response[1].contentType = "application/json"
    /\ net = <<>>

---------------------------------------------------------------------------
(* Claims about buildQuickPolicy: toggles, modifiers, verbs *)

\* the resource_rules entries of a built document
RulesOf(text) == arrayOrEmpty(getProp(Decoded(text), "resource_rules"))

\* the toggles that grant or withdraw a capability
CapabilityToggles ==
    {"allowReadContent", "allowReadMetadata", "allowNavigation", "allowForms", "allowDownloads"}

\* the configuration with one toggle switched
Flipped(state, toggle) == [state EXCEPT ![toggle] = ~@]

\* the time the built text carries
BuiltAt == getProp(getProp(Decoded(q_policy[1]), "metadata"), "last_updated").s

\* the two rule lists have the same length, the same verb and selector at
\* every position, and differ in the allowed flag of exactly one rule
OneFlagApart(rulesA, rulesB) ==
    /\ Len(rulesA) = Len(rulesB)
    /\ \A i \in 1..Len(rulesA) :
          /\ getProp(rulesA[i], "verb") = getProp(rulesB[i], "verb")
          /\ getProp(rulesA[i], "selector") = getProp(rulesB[i], "selector")
    /\ Cardinality({i \in 1..Len(rulesA) :
                       getProp(rulesA[i], "allowed") # getProp(rulesB[i], "allowed")}) = 1

\* C23: each of allowReadContent, allowReadMetadata, allowNavigation,
\* allowForms and allowDownloads changes only the allowed flag of one fixed
\* verb/selector pairing: the documents built from two configurations that
\* differ in one of these toggles have the same number and order of rules,
\* the same verb and selector at every position, and differ in the allowed
\* flag of exactly one rule.
C23_ToggleFrame ==
    (po_pc = "built") =>
        \A toggle \in CapabilityToggles :
            OneFlagApart(RulesOf(q_policy[1]),
                         RulesOf(buildQuickPolicy(Flipped(q_state, toggle), BuiltAt)))

\* the claim for one toggle alone
ToggleFrameFor(toggle) ==
    (po_pc = "built") =>
        OneFlagApart(RulesOf(q_policy[1]),
                     RulesOf(buildQuickPolicy(Flipped(q_state, toggle), BuiltAt)))

C23_FrameReadContent == ToggleFrameFor("allowReadContent")
C23_FrameReadMetadata == ToggleFrameFor("allowReadMetadata")
C23_FrameNavigation == ToggleFrameFor("allowNavigation")
C23_FrameForms == ToggleFrameFor("allowForms")
C23_FrameDownloads == ToggleFrameFor("allowDownloads")

---------------------------------------------------------------------------
(* C24: rate limits in the built document *)

\* the rules of the built document, once there is one
BuiltRules == RulesOf(q_policy[1])

\* the rate_limit modifier with the given numbers, as the document spells it
RateLimitOf(requests, seconds) ==
    JObj(<< <<"rate_limit", JObj(<< <<"max_requests", JNum(requests)>>,
                                    <<"window_seconds", JNum(seconds)>> >>)>> >>)

\* the positions of the built rules whose verb is the given one
BuiltWithVerb(verb) ==
    {i \in 1..Len(BuiltRules) : getProp(BuiltRules[i], "verb") = JStr(verb)}

\* C24: in every built document only follow_link rules carry a rate_limit
\* modifier; a follow_link rule carries it exactly when navigation is allowed
\* and the rate limit is not "open", with 1 request per 1 second for
\* "gentle" and 5 requests per 10 seconds for "standard"; when the rate
\* limit is "open" or navigation is disallowed the follow_link rule has no
\* modifiers at all.
C24_RateLimitOnFollowLink ==
    (q_policy # None) =>
       LET rules == BuiltRules
           follow == {i \in 1..Len(rules) : getProp(rules[i], "verb") = JStr("follow_link")}
       IN /\ follow # {}
          /\ \A i \in 1..Len(rules) :
                hasOwn(getProp(rules[i], "modifiers"), "rate_limit") => i \in follow
          /\ \A i \in follow :
                IF q_state.allowNavigation /\ q_state.rateLimit # "open"
                THEN getProp(rules[i], "modifiers") =
                        IF q_state.rateLimit = "gentle" THEN RateLimitOf(1, 1)
                        ELSE RateLimitOf(5, 10)
                ELSE ~hasOwn(rules[i], "modifiers")

\* a document built with navigation allowed under the "standard" limit
C24_Witness ==
    /\ po_pc = "built"
    /\ q_state.allowNavigation /\ q_state.rateLimit = "standard"
    /\ \E i \in BuiltWithVerb("follow_link") :
          getProp(BuiltRules[i], "modifiers") = RateLimitOf(5, 10)

\* a document built with navigation allowed under the "open" limit
C24_WitnessOpen ==
    /\ po_pc = "built"
    /\ q_state.allowNavigation /\ q_state.rateLimit = "open"
    /\ \E i \in BuiltWithVerb("follow_link") : ~hasOwn(BuiltRules[i], "modifiers")

\* a document built with navigation disallowed under the "gentle" limit
C24_WitnessNoNavigation ==
    /\ po_pc = "built"
    /\ ~q_state.allowNavigation /\ q_state.rateLimit = "gentle"
    /\ \E i \in BuiltWithVerb("follow_link") : ~hasOwn(BuiltRules[i], "modifiers")

---------------------------------------------------------------------------
(* C25: human confirmation on the form rules *)

\* whether the rule asks for a human in the loop
AsksHuman(rule) == hasOwn(getProp(rule, "modifiers"), "human_in_the_loop")

FormVerbs == {"set_input_value", "submit_form"}

\* C25: in every built document the set_input_value and submit_form rules
\* carry human_in_the_loop = true exactly when forms are allowed and a human
\* is required for forms; the two rules agree on allowed and on modifiers;
\* no other rule carries human_in_the_loop.
C25_HumanInTheLoopOnForms ==
    (q_policy # None) =>
       LET rules == BuiltRules
           forms == {i \in 1..Len(rules) :
                       \E verb \in FormVerbs : getProp(rules[i], "verb") = JStr(verb)}
       IN /\ \A verb \in FormVerbs :
                \E i \in forms : getProp(rules[i], "verb") = JStr(verb)
          /\ \A i \in forms :
                /\ AsksHuman(rules[i])
                      <=> (q_state.allowForms /\ q_state.requireHumanForForms)
                /\ AsksHuman(rules[i])
                      => getProp(getProp(rules[i], "modifiers"), "human_in_the_loop")
                            = JBool(TRUE)
          /\ \A i, j \in forms :
                /\ getProp(rules[i], "allowed") = getProp(rules[j], "allowed")
                /\ hasOwn(rules[i], "modifiers") = hasOwn(rules[j], "modifiers")
                /\ getProp(rules[i], "modifiers") = getProp(rules[j], "modifiers")
          /\ \A i \in 1..Len(rules) : AsksHuman(rules[i]) => i \in forms

\* a document built with forms allowed and a human required for them
C25_Witness ==
    /\ po_pc = "built"
    /\ q_state.allowForms /\ q_state.requireHumanForForms
    /\ \E i \in BuiltWithVerb("submit_form") : AsksHuman(BuiltRules[i])

\* a document built with a human required for forms that are not allowed
C25_WitnessNoForms ==
    /\ po_pc = "built"
    /\ ~q_state.allowForms /\ q_state.requireHumanForForms
    /\ \E i \in BuiltWithVerb("submit_form") : ~AsksHuman(BuiltRules[i])

---------------------------------------------------------------------------
(* C26: what truncation keeps and what it adds *)

\* the three-character marker, written out
ThreeDots == <<".", ".", ".">>

\* the content the summary holds for a text extracted under a ceiling
Shortened(text, ceiling) ==
    IF Len(text) > ceiling THEN SubSeq(text, 1, ceiling) \o ThreeDots ELSE text

\* the crawl has returned a page summary
PageReturned == c_pc = "returned" /\ Len(c_pages) = 1

\* C26: content longer than its ceiling is stored as its first ceiling
\* characters followed by "...", so its stored length is the ceiling plus
\* three; content not longer than the ceiling is stored unchanged, without
\* a marker; the same holds for the page text and for the html.
C26_TruncationContent ==
    PageReturned =>
       LET merged == mergeOptions(c_options)
           page == c_pages[1]
       IN /\ page.textContent = Shortened(c_rawText, merged.maxTextChars)
          /\ page.htmlContent = Shortened(c_bodyHtml, merged.maxHtmlChars)
          /\ Len(c_rawText) > merged.maxTextChars
                => Len(page.textContent) = merged.maxTextChars + 3
          /\ Len(c_bodyHtml) > merged.maxHtmlChars
                => Len(page.htmlContent) = merged.maxHtmlChars + 3
          /\ Len(c_rawText) <= merged.maxTextChars => page.textContent = c_rawText
          /\ Len(c_bodyHtml) <= merged.maxHtmlChars => page.htmlContent = c_bodyHtml

\* a text two characters long stored under a ceiling of one
C26_Witness ==
    /\ PageReturned
    /\ mergeOptions(c_options).maxTextChars = 1
    /\ c_rawText = <<"a", ".">>
    /\ c_pages[1].textContent = <<"a", ".", ".", ".">>

\* an html of one character stored unchanged under a ceiling of one
C26_WitnessUnchanged ==
    /\ PageReturned
    /\ mergeOptions(c_options).maxHtmlChars = 1
    /\ c_bodyHtml = <<"<">>
    /\ c_pages[1].htmlContent = <<"<">>

---------------------------------------------------------------------------
(* C27: block scoping by the most recent user-agent line *)

\* the positions of the lines of this kind that carry a value and stand in a
\* block that applies
InBlocks(ls, kind) ==
    {i \in 1..Len(ls) : ls[i].kind = kind /\ ls[i].value # <<>> /\ InMatchingBlock(ls, i)}

\* the k-th smallest position of the set
Nth(positions, k) ==
    CHOOSE i \in positions : Cardinality({j \in positions : j <= i}) = k

\* the values of those lines, in file order
ValuesInBlocks(ls, kind) ==
    [k \in 1..Cardinality(InBlocks(ls, kind)) |-> ls[Nth(InBlocks(ls, kind), k)].value]

\* C27: whether a directive counts is decided by the most recent user-agent
\* line above it alone: a user-agent line that does not match closes a block
\* an earlier matching line opened, also when user-agent lines follow one
\* another; the allow and disallow values of all the blocks that apply are
\* collected in file order.
C27_BlockScoping ==
    (pr_pc = "done") =>
        /\ pr_rules.disallow = ValuesInBlocks(pr_lines, "disallow")
        /\ pr_rules.allow = ValuesInBlocks(pr_lines, "allow")

\* a block that applies, one that does not, one that applies again
C27_Witness ==
    /\ pr_pc = "done"
    /\ pr_lines = <<L_UA_STAR, L_DISALLOW_A, L_UA_OTHER_BOT, L_DISALLOW_SPACED,
                    L_UA_TOKEN, L_ALLOW_B>>
    /\ pr_rules.disallow = << <<"/", "a">> >>
    /\ pr_rules.allow = << <<"/", "b">> >>

\* user-agent lines in a row: the last one decides
C27_WitnessConsecutive ==
    /\ pr_pc = "done"
    /\ pr_lines = <<L_UA_STAR, L_UA_OTHER_BOT, L_DISALLOW_A>>
    /\ pr_rules.disallow = <<>>

\* two blocks that apply: their values are collected in file order
C27_WitnessAccumulates ==
    /\ pr_pc = "done"
    /\ pr_lines = <<L_UA_STAR, L_DISALLOW_A, L_UA_TOKEN, L_DISALLOW_SPACED>>
    /\ pr_rules.disallow = << <<"/", "a">>, <<"/", "c", ":", "d">> >>

---------------------------------------------------------------------------
(* C28: the order of the entries does not matter *)

\* the ways of putting the entries of the list in another order
Reorderings(list) ==
    {[i \in 1..Len(list) |-> list[p[i]]] :
        p \in {q \in [1..Len(list) -> 1..Len(list)] :
                 \A i, j \in 1..Len(list) : q[i] = q[j] => i = j}}

\* C28: the answer of isPathAllowed does not depend on the order of the
\* entries within the allow list or within the disallow list: it is true
\* when some allow entry matches or no disallow entry matches, and false
\* otherwise.
C28_OrderIndependent ==
    (pa_pc = "done" /\ pa_rules # None) =>
        /\ pa_allowed = (SomeAllowMatches \/ ~SomeDisallowMatches)
        /\ \A d \in Reorderings(pa_rules[1].disallow), a \in Reorderings(pa_rules[1].allow) :
              isPathAllowed(pa_path, Some(RobotsRules(d, a, pa_rules[1].crawlDelay)))
                 = pa_allowed

\* a refusal decided by the second disallow entry, the first not matching
C28_Witness ==
    /\ pa_pc = "done"
    /\ pa_rules # None
    /\ Len(pa_rules[1].disallow) = 2
    /\ ~matchesRule(NormalizedPath, pa_rules[1].disallow[1])
    /\ matchesRule(NormalizedPath, pa_rules[1].disallow[2])
    /\ ~pa_allowed

\* a permission decided by the second allow entry, the first not matching,
\* against a disallow list that matches
C28_WitnessAllow ==
    /\ pa_pc = "done"
    /\ pa_rules # None
    /\ Len(pa_rules[1].allow) = 2
    /\ ~matchesRule(NormalizedPath, pa_rules[1].allow[1])
    /\ matchesRule(NormalizedPath, pa_rules[1].allow[2])
    /\ SomeDisallowMatches
    /\ pa_allowed

---------------------------------------------------------------------------
(* C29: the event stream of an accepted request *)

\* the events that end a stream
TerminalEvents == {"result", "error"}

\* the events written so far are log events, one per log entry, in the
\* order the entries were logged
OnlyLogEvents(events) ==
    /\ Len(events) = Len(h_processLog)
    /\ \A i \in 1..Len(events) :
          events[i] = [event |-> "log", data |-> h_processLog[i]]

\* the run of a streaming request has ended, one way or the other
StreamingRunEnded == h_req.wantsStream /\ h_pc \in {"responded", "raised"}

\* C29: in streaming mode an accepted request produces zero or more log
\* events followed by exactly one terminal event: "result" when the run
\* succeeds, "error" when it raises. The log events come before the terminal
\* event, in the order the entries were logged; the stream is then closed
\* and nothing is written after the terminal event.
C29_StreamShape ==
    (h_pc # "idle" /\ h_req.wantsStream) =>
       /\ ~RequestAccepted => (h_events = <<>> /\ ~h_closed)
       /\ ~h_closed => (OnlyLogEvents(h_events) /\ ~StreamingRunEnded)
       /\ h_closed =>
             /\ StreamingRunEnded
             /\ h_events # <<>>
             /\ OnlyLogEvents(SubSeq(h_events, 1, Len(h_events) - 1))
             /\ h_events[Len(h_events)].event
                   = IF h_pc = "responded" THEN "result" ELSE "error"
             /\ Cardinality({i \in 1..Len(h_events) :
                                h_events[i].event \in TerminalEvents}) = 1

\* a run that succeeded: log events, then the result, then the close
C29_Witness ==
    /\ h_req.wantsStream
    /\ h_pc = "responded"
    /\ h_closed
    /\ Len(h_events) > 1
    /\ h_events[1].event = "log"
    /\ h_events[Len(h_events)].event = "result"

\* a run that raised: the error event alone, then the close
C29_WitnessError ==
    /\ h_req.wantsStream
    /\ h_pc = "raised"
    /\ h_closed
    /\ Len(h_events) = 1
    /\ h_events[1].event = "error"

---------------------------------------------------------------------------
(* C30: the shape every built document has *)

\* the closed verb set: the verbs with a label, the catch-all "all" aside
SchemaVerbs == verbLabels \ {"all"}

\* the verbs of the eight rules, in the order the builder writes them
BuiltVerbOrder ==
    <<"read_content", "read_metadata", "follow_link", "set_input_value", "submit_form",
      "execute_script", "upload_file", "download_file">>

\* C30: in every built document a rule whose allowed flag is false has no
\* modifiers key; every verb belongs to the closed verb set; the eight rules
\* stand in the same order whatever the configuration.
C30_BuiltDocumentShape ==
    (q_policy # None) =>
       LET rules == BuiltRules
       IN /\ Len(rules) = Len(BuiltVerbOrder)
          /\ \A i \in 1..Len(rules) :
                /\ getProp(rules[i], "verb") = JStr(BuiltVerbOrder[i])
                /\ getProp(rules[i], "verb").s \in SchemaVerbs
                /\ getProp(rules[i], "allowed") = JBool(FALSE)
                      => ~hasOwn(rules[i], "modifiers")

\* navigation and forms refused while a rate limit and a human are asked for
C30_Witness ==
    /\ po_pc = "built"
    /\ ~q_state.allowNavigation /\ q_state.rateLimit = "gentle"
    /\ ~q_state.allowForms /\ q_state.requireHumanForForms
    /\ \A i \in 3..5 : /\ getProp(BuiltRules[i], "allowed") = JBool(FALSE)
                       /\ ~hasOwn(BuiltRules[i], "modifiers")

====
